---- MODULE Spec2Model ----
(***************************************************************************)
(* Multiplayer session engine of backend/app.py: the team and versus       *)
(* registries, their lock-guarded handlers, lazy idle eviction, and the    *)
(* text normalisation the handlers use for dedup keys and title equality.  *)
(*                                                                         *)
(* A text is a sequence of characters.  An ASCII character is the          *)
(* one-character string itself; a non-ASCII code point is written          *)
(* "U+XXXX".                                                               *)
(***************************************************************************)
EXTENDS Integers, Sequences, FiniteSets, TLC

VARIABLES TEAM_SESSIONS, VERSUS_SESSIONS, TEAM_LOCK, VERSUS_LOCK, ttl, now, pending,
          resp

vars == <<TEAM_SESSIONS, VERSUS_SESSIONS, TEAM_LOCK, VERSUS_LOCK, ttl, now, pending,
          resp>>

(***************************************************************************)
(* Characters and Python's string primitives                               *)
(***************************************************************************)
Lower == <<"a","b","c","d","e","f","g","h","i","j","k","l","m",
           "n","o","p","q","r","s","t","u","v","w","x","y","z">>

Upper == <<"A","B","C","D","E","F","G","H","I","J","K","L","M",
           "N","O","P","Q","R","S","T","U","V","W","X","Y","Z">>

Digits == <<"0","1","2","3","4","5","6","7","8","9">>

Range(s) == {s[i] : i \in 1..Len(s)}

IndexOf(s, c) == CHOOSE i \in 1..Len(s) : s[i] = c

\* Code points outside ASCII that the model's texts use.
NonAscii == {"U+00C9", "U+00D3", "U+00E9", "U+00F3", "U+0301", "U+2019", "U+00AB", "U+00BB",
             "U+2039", "U+203A", "U+00DF", "U+00A0"}

IsAscii(c) == c \notin NonAscii

\* str.isspace of one character (space, tab, no-break space).
IsSpace(c) == c \in {" ", "\t", "U+00A0"}

\* [a-z0-9]
IsAlnumLower(c) == c \in Range(Lower) \cup Range(Digits)

\* \w on ASCII text: letters, digits and the underscore.
IsWordChar(c) == c \in Range(Lower) \cup Range(Upper) \cup Range(Digits) \cup {"_"}

RECURSIVE lstrip(_)
lstrip(s) == IF s # <<>> /\ IsSpace(Head(s)) THEN lstrip(Tail(s)) ELSE s

RECURSIVE rstrip(_)
rstrip(s) ==
    IF s # <<>> /\ IsSpace(s[Len(s)]) THEN rstrip(SubSeq(s, 1, Len(s) - 1)) ELSE s

\* str.strip()
strip(s) == rstrip(lstrip(s))

\* str.upper() of one character
upper_char(c) ==
    IF c \in Range(Lower) THEN <<Upper[IndexOf(Lower, c)]>>
    ELSE IF c = "U+00E9" THEN <<"U+00C9">>
    ELSE IF c = "U+00F3" THEN <<"U+00D3">>
    ELSE IF c = "U+00DF" THEN <<"S", "S">>
    ELSE <<c>>

\* str.upper()
RECURSIVE upper(_)
upper(s) == IF s = <<>> THEN <<>> ELSE upper_char(Head(s)) \o upper(Tail(s))

\* unicodedata.normalize("NFD", .) of one character
nfd_char(c) ==
    IF c = "U+00C9" THEN <<"E", "U+0301">>
    ELSE IF c = "U+00E9" THEN <<"e", "U+0301">>
    ELSE IF c = "U+00D3" THEN <<"O", "U+0301">>
    ELSE IF c = "U+00F3" THEN <<"o", "U+0301">>
    ELSE <<c>>

RECURSIVE nfd(_)
nfd(s) == IF s = <<>> THEN <<>> ELSE nfd_char(Head(s)) \o nfd(Tail(s))

\* str.casefold() of one character
casefold_char(c) ==
    IF c \in Range(Upper) THEN <<Lower[IndexOf(Upper, c)]>>
    ELSE IF c = "U+00C9" THEN <<"U+00E9">>
    ELSE IF c = "U+00D3" THEN <<"U+00F3">>
    ELSE IF c = "U+00DF" THEN <<"s", "s">>
    ELSE <<c>>

RECURSIVE casefold(_)
casefold(s) ==
    IF s = <<>> THEN <<>> ELSE casefold_char(Head(s)) \o casefold(Tail(s))

\* .replace(curly quote, "'").replace(backtick, "'") and the four
\* .replace(guillemet, ""); the backtick is written "U+0060".
replace_quotes_char(c) ==
    IF c \in {"U+2019", "U+0060"} THEN <<"'">>
    ELSE IF c \in {"U+00AB", "U+00BB", "U+2039", "U+203A"} THEN <<>>
    ELSE <<c>>

RECURSIVE replace_quotes(_)
replace_quotes(s) ==
    IF s = <<>> THEN <<>>
    ELSE replace_quotes_char(Head(s)) \o replace_quotes(Tail(s))

\* .encode("ascii", "ignore").decode("ascii")
ascii_ignore_char(c) == IF IsAscii(c) THEN <<c>> ELSE <<>>

RECURSIVE ascii_ignore(_)
ascii_ignore(s) ==
    IF s = <<>> THEN <<>> ELSE ascii_ignore_char(Head(s)) \o ascii_ignore(Tail(s))

normalize_word(value) ==
    strip(ascii_ignore(replace_quotes(casefold(nfd(value)))))

\* re.sub(r"[^a-z0-9]+", " ", s): every maximal run of other characters
\* becomes one space.
RECURSIVE sub_non_alnum(_)
sub_non_alnum(s) ==
    IF s = <<>> THEN <<>>
    ELSE IF IsAlnumLower(Head(s)) THEN <<Head(s)>> \o sub_non_alnum(Tail(s))
    ELSE IF Len(s) > 1 /\ ~IsAlnumLower(s[2]) THEN sub_non_alnum(Tail(s))
    ELSE <<" ">> \o sub_non_alnum(Tail(s))

\* re.sub(r"\s+", " ", s)
RECURSIVE sub_spaces(_)
sub_spaces(s) ==
    IF s = <<>> THEN <<>>
    ELSE IF ~IsSpace(Head(s)) THEN <<Head(s)>> \o sub_spaces(Tail(s))
    ELSE IF Len(s) > 1 /\ IsSpace(s[2]) THEN sub_spaces(Tail(s))
    ELSE <<" ">> \o sub_spaces(Tail(s))

\* Variant: the first substitution is skipped, punctuation stays in the key.
_normalize_guess_value_KeepPunct(word) ==
    strip(sub_spaces(normalize_word(word)))

_normalize_guess_value(word) ==
    strip(sub_spaces(sub_non_alnum(normalize_word(word))))

FeatTokens == {<<"f","e","a","t">>, <<"f","t">>,
               <<"f","e","a","t","u","r","i","n","g">>}

\* Length of the maximal run of \w characters at the head of s.
RECURSIVE WordRun(_)
WordRun(s) == IF s # <<>> /\ IsWordChar(Head(s)) THEN 1 + WordRun(Tail(s)) ELSE 0

\* re.sub(r"\b(feat|ft|featuring)\b", " ", s), scanning from a word boundary:
\* a whole \w-run equal to one of the tokens becomes one space.
RECURSIVE sub_feat(_)
sub_feat(s) ==
    IF s = <<>> THEN <<>>
    ELSE IF ~IsWordChar(Head(s)) THEN <<Head(s)>> \o sub_feat(Tail(s))
    ELSE LET n == WordRun(s)
             w == SubSeq(s, 1, n)
             rest == SubSeq(s, n + 1, Len(s))
         IN  (IF w \in FeatTokens THEN <<" ">> ELSE w) \o sub_feat(rest)

_normalize_title_value(value) ==
    strip(sub_spaces(sub_non_alnum(sub_feat(normalize_word(value)))))

(***************************************************************************)
(* Configuration and inputs                                                *)
(***************************************************************************)
\* The default of line 39; the variable ttl is the value the process runs
\* with.
TEAM_SESSION_TTL_SECONDS == 43200

TEAM_MAX_PLAYERS == 2

\* range(50) of _generate_session_code
CODE_TRIES == 50

MAX_TOPN == 60

\* The clock may run this many seconds past one TTL.
MaxSlack == 1

MaxTime == TEAM_SESSION_TTL_SECONDS + MaxSlack

\* Worker threads of the transport layer, each serving one request at a time.
Threads == {"t1", "t2"}

A == <<"A">>

B == <<"B">>

C == <<"C">>

Blank == <<" ">>

K1 == <<"A","A","A","A","A","A">>

K2 == <<"B","2","B","2","B","2">>

\* K1 as a client may type it.
K1Typed == <<" ","a","a","a","a","a","a">>

SongYZ == [artist |-> <<"X">>, title |-> <<"Y"," ","Z">>, lyrics |-> <<".",".",".">>]

SongBlankTitle == [artist |-> <<"X">>, title |-> Blank, lyrics |-> <<".",".",".">>]

SongBlankArtist == [SongYZ EXCEPT !.artist = Blank]

SongBlankLyrics == [SongYZ EXCEPT !.lyrics = <<>>]

\* Two spellings of one key, and another key.
WordYo == <<"y","o">>

WordYoAccent == <<"Y","U+00F3","!">>

WordZ == <<"z">>

\* A word that normalises to nothing.
WordPunct == <<"?">>

TitleYZ == <<"y"," ","z">>

TitleYZShout == <<"Y","-","Z","!">>

TitleY == <<"y">>

\* The featured-artist annotation " (feat. X)" for the artist X.
FeatAnnotation(X) == <<" ", "(", "f", "e", "a", "t", ".", " ">> \o X \o <<")">>

Artists == {<<"Q">>, <<"X">>}

\* The title of SongYZ with the annotation.
TitleYZFeat == {SongYZ.title \o FeatAnnotation(X) : X \in Artists}

\* A title that normalises to nothing.
TitlePunct == <<"?">>

\* The guesses of the end-to-end team scenario.
WordBonjour == <<"b","o","n","j","o","u","r">>

WordBonjourCap == <<"B","o","n","j","o","u","r">>

TitleYZFeatQ == TitleYZ \o FeatAnnotation(<<"Q">>)

\* The values the requests of a run are drawn from:
\*   hosts    client_id of create requests      clients  client_id of the others
\*   codes    code, as sent                     pool     codes random.choice draws
\*   words    word of guess requests            titles   title of title guesses
\*   songs    song of create requests           mins     min_streams
\*   steps    amounts by which the clock advances between two steps
InputsTeam ==
    [hosts |-> {A, Blank}, clients |-> {A, B, C},
     codes |-> {K1Typed, Blank}, pool |-> {K1},
     words |-> {WordYo, WordYoAccent, WordZ, WordPunct},
     titles |-> {TitleYZShout, TitleY},
     songs |-> {SongYZ, SongBlankTitle}, mins |-> {2},
     steps |-> {TEAM_SESSION_TTL_SECONDS + 1}]

InputsVersus ==
    [InputsTeam EXCEPT !.clients = {A, B}, !.words = {WordYo, WordYoAccent, WordZ}]

\* Both registries, one thread.
InputsBoth ==
    [hosts |-> {A}, clients |-> {A, B},
     codes |-> {K1Typed}, pool |-> {K1},
     words |-> {WordYo, WordYoAccent},
     titles |-> {TitleYZShout},
     songs |-> {SongYZ}, mins |-> {2},
     steps |-> {TEAM_SESSION_TTL_SECONDS + 1}]

\* Both registries, one thread, creating, joining and guessing.
InputsGuess == [InputsBoth EXCEPT !.words = {WordYoAccent, WordZ}]

\* Two threads, the clock stopped.
InputsRace ==
    [hosts |-> {A}, clients |-> {A, B, C},
     codes |-> {K1Typed}, pool |-> {K1},
     words |-> {WordYo, WordYoAccent},
     titles |-> {TitleYZ, TitleYZShout, TitleY},
     songs |-> {SongYZ}, mins |-> {2},
     steps |-> {}]

\* Two worker threads creating sessions, two codes to draw, the clock running.
InputsCreate ==
    [hosts |-> {A, B}, clients |-> {},
     codes |-> {}, pool |-> {K1, K2},
     words |-> {}, titles |-> {},
     songs |-> {SongYZ}, mins |-> {2},
     steps |-> {TEAM_SESSION_TTL_SECONDS + 1}]

\* One thread; A creates and joins, B never joins; the clock is read at the
\* eviction deadline of a session touched at 0, one second after it, and at
\* the end of the run.
InputsExpiry ==
    [hosts |-> {A}, joiners |-> {A}, clients |-> {A, B},
     codes |-> {K1Typed, Blank}, pool |-> {K1},
     words |-> {WordYo}, titles |-> {TitleYZShout, TitlePunct},
     songs |-> {SongYZ}, mins |-> {2},
     readings |-> {TEAM_SESSION_TTL_SECONDS, TEAM_SESSION_TTL_SECONDS + 1, MaxTime}]

\* One thread, both registries; A and B join, B guesses; the clock is read
\* once more, one TTL after the start.
InputsRejoin ==
    [hosts |-> {A}, joiners |-> {A, B}, clients |-> {B},
     codes |-> {K1Typed}, pool |-> {K1},
     words |-> {WordYo}, titles |-> {TitleYZShout},
     songs |-> {SongYZ}, mins |-> {2},
     readings |-> {TEAM_SESSION_TTL_SECONDS}]

\* One thread, the team registry, titles guessed with and without a
\* featured-artist annotation.
InputsTitle ==
    [hosts |-> {A}, clients |-> {A, B},
     codes |-> {K1Typed}, pool |-> {K1},
     words |-> {WordYo},
     titles |-> {TitleYZ, TitleY} \cup TitleYZFeat,
     songs |-> {SongYZ}, mins |-> {2},
     steps |-> {}]

\* Two threads guessing in both registries, the clock stopped: the host of
\* a team session guesses two keys on two threads, the two players of a
\* versus session guess one key each.
InputsGuessRace ==
    [hosts |-> {A}, joiners |-> {B}, clients |-> {A, B},
     codes |-> {K1Typed}, pool |-> {K1},
     words |-> {WordYo, WordZ}, versus_words |-> {WordYo}, titles |-> {},
     songs |-> {SongYZ}, mins |-> {2},
     steps |-> {}]

\* Two threads inside the blocks of the two handlers: the host of a team
\* session guesses one word on both threads, the two players of a versus
\* session guess the title, and the clock moves by one second, so that no
\* session is old enough to be evicted.
InputsLock ==
    [hosts |-> {A}, joiners |-> {B}, clients |-> {A, B},
     codes |-> {K1Typed}, pool |-> {K1},
     words |-> {WordYo}, titles |-> {TitleYZShout},
     songs |-> {SongYZ}, mins |-> {2},
     steps |-> {}, readings |-> {1}]

\* Two threads, both registries, the clock stopped: the host creates the
\* sessions, and the host and a stranger guess one word.
InputsFair ==
    [hosts |-> {A}, clients |-> {A, B},
     codes |-> {K1Typed}, pool |-> {K1},
     words |-> {WordYo}, titles |-> {},
     songs |-> {SongYZ}, mins |-> {2},
     steps |-> {}]

\* One thread, the team registry, the requests of the end-to-end scenario.
InputsScenario ==
    [hosts |-> {A}, clients |-> {A, B},
     codes |-> {K1Typed}, pool |-> {K1},
     words |-> {WordBonjour, WordBonjourCap},
     titles |-> {TitleYZFeatQ},
     songs |-> {SongYZ}, mins |-> {2},
     steps |-> {}]

\* One thread, both registries, A and B members of each session: titles
\* equal to the stored one up to normalisation, shorter and longer than it;
\* the clock moves by one second.
InputsTitleMatch ==
    [hosts |-> {A}, joiners |-> {B}, clients |-> {A, B},
     codes |-> {K1Typed}, pool |-> {K1},
     words |-> {},
     titles |-> {TitleYZShout, TitleY, TitleYZFeatQ},
     songs |-> {SongYZ}, mins |-> {2},
     steps |-> {}, readings |-> {1}]

\* One thread, both registries, A and B members of each session, two keys
\* to guess and the state to read; the clock stopped.
InputsLedger ==
    [hosts |-> {A}, joiners |-> {B}, clients |-> {A, B},
     codes |-> {K1Typed}, pool |-> {K1},
     words |-> {WordYo, WordZ}, titles |-> {},
     songs |-> {SongYZ}, mins |-> {2},
     steps |-> {}]

\* As InputsExpiry, the clock read at the deadline of a session touched at
\* 0 and one second after it.
InputsEviction ==
    [InputsExpiry EXCEPT
         !.codes = {K1Typed},
         !.titles = {TitleYZShout},
         !.readings = {TEAM_SESSION_TTL_SECONDS, TEAM_SESSION_TTL_SECONDS + 1}]

\* One thread, both registries, all handlers: creates with and without a
\* host id, with complete songs and with songs lacking one field.
InputsSong ==
    [hosts |-> {A, Blank}, clients |-> {A, B},
     codes |-> {K1Typed}, pool |-> {K1},
     words |-> {WordYo},
     titles |-> {TitleYZShout},
     songs |-> {SongYZ, SongBlankArtist, SongBlankTitle, SongBlankLyrics},
     mins |-> {2},
     steps |-> {TEAM_SESSION_TTL_SECONDS + 1}]

\* Guess texts: every string of 1..MaxText characters over two letters (one
\* of them upper case), an accented letter, an apostrophe and a blank.
MaxText == 3

TextAlphabet == {"o", "Z", "U+00F3", "'", " "}

Texts == UNION {[1..n -> TextAlphabet] : n \in 1..MaxText}

\* An embedding model that knows "yo" and "z", each the neighbour of the other.
KvYoZ ==
    [token \in {WordYo, WordZ} |->
         IF token = WordYo THEN <<[term |-> WordZ, score |-> 1]>>
         ELSE <<[term |-> WordYo, score |-> 1]>>]

\* One thread: the host of a team session guesses words and looks the same
\* words up, among them a spelling of "yo" with a capital, an accent and an
\* exclamation mark, a word of punctuation only and a blank word.
InputsSimilar ==
    [hosts |-> {A}, clients |-> {A},
     codes |-> {K1Typed}, pool |-> {K1},
     words |-> {WordYo, WordYoAccent, WordZ, WordPunct, Blank},
     topns |-> {0, 15, 61}, kv |-> KvYoZ,
     songs |-> {SongYZ}, mins |-> {2},
     steps |-> {}]

\* Titles that are not blank and normalise to nothing: punctuation only, and
\* the token "Feat." only.
TitleFeatOnly == <<"F", "e", "a", "t", ".">>

SongPunct == [SongYZ EXCEPT !.title = TitlePunct]

SongFeatOnly == [SongYZ EXCEPT !.title = TitleFeatOnly]

\* One thread, both registries, A and B members of each session: the stored
\* title is "Y Z", "?" or "Feat.", the guesses are a spelling of "Y Z", "?"
\* and "Feat."; the clock moves by one second.
InputsEmptyTitle ==
    [hosts |-> {A}, joiners |-> {B}, clients |-> {A, B},
     codes |-> {K1Typed}, pool |-> {K1},
     words |-> {},
     titles |-> {TitleYZShout, TitlePunct, TitleFeatOnly},
     songs |-> {SongYZ, SongPunct, SongFeatOnly}, mins |-> {2},
     steps |-> {}, readings |-> {1}]

\* One thread, both registries, all handlers, the clock stopped: A creates,
\* A, B and C join, guess one word and guess the title.
InputsMembers ==
    [hosts |-> {A}, clients |-> {A, B, C},
     codes |-> {K1Typed}, pool |-> {K1},
     words |-> {WordYo},
     titles |-> {TitleYZShout},
     songs |-> {SongYZ}, mins |-> {2},
     steps |-> {}]

\* One thread: the host A and the stranger B guess in a team session and
\* guess and guess the title in a versus session, with blank codes, client
\* ids, words and titles and with a word and a title that normalise to
\* nothing; the clock jumps past one TTL.
InputsPrecedence ==
    [hosts |-> {A}, clients |-> {A, B, Blank},
     codes |-> {K1Typed, Blank}, pool |-> {K1},
     words |-> {WordYo, WordPunct, Blank},
     titles |-> {TitleYZShout, TitlePunct, Blank},
     songs |-> {SongYZ}, mins |-> {2},
     steps |-> {TEAM_SESSION_TTL_SECONDS + 1}]

NoReq == [op |-> "idle"]

\* An answer is the status and the body sent back, with the request answered.
NoResp == [status |-> 0]

HTTPException(status_code, detail) == [status |-> status_code, body |-> detail]

Answer(request, answer) ==
    [request |-> request, status |-> answer.status, body |-> answer.body]

Ok(body) == [status |-> 200, body |-> body]

Max(a, b) == IF a >= b THEN a ELSE b

(***************************************************************************)
(* Registry helpers                                                        *)
(***************************************************************************)
\* A registry is a function from the codes it holds to session records.
EmptyStore == [c \in {} |-> 0]

Put(store, code, session) ==
    [c \in DOMAIN store \cup {code} |-> IF c = code THEN session ELSE store[c]]

\* Variant: the eviction pass removes nothing.
_cleanup_sessions_Never(store, t) == store

\* Variant: a session idle for exactly one TTL is evicted too.
_cleanup_sessions_Inclusive(store, t) ==
    IF ttl <= 0 THEN store
    ELSE [code \in {c \in DOMAIN store : t - store[c].updated_at < ttl}
              |-> store[code]]

\* Variant: the pass does not look at the sign of the TTL.
_cleanup_sessions_NoGuard(store, t) ==
    [code \in {c \in DOMAIN store : ~(t - store[c].updated_at > ttl)}
         |-> store[code]]

\* _cleanup_sessions at clock reading t: the entries that stay.
_cleanup_sessions(store, t) ==
    IF ttl <= 0 THEN store
    ELSE LET expired_codes ==
                 {code \in DOMAIN store : t - store[code].updated_at > ttl}
         IN  [code \in DOMAIN store \ expired_codes |-> store[code]]

\* Stands for the raise after the loop of _generate_session_code.
RuntimeError == <<"RuntimeError">>

\* Python's None.
None == <<"None">>

\* Variant: the drawn code is returned without the membership test.
_generate_session_code_NoCheck(store, pool, tries) == pool

\* _generate_session_code: the values the loop can return after at most
\* `tries` draws, random.choice drawing the codes of `pool`.
RECURSIVE _generate_session_code(_, _, _)
_generate_session_code(store, pool, tries) ==
    IF tries = 0 THEN {RuntimeError}
    ELSE (pool \ DOMAIN store)
         \cup (IF pool \cap DOMAIN store # {}
               THEN _generate_session_code(store, pool, tries - 1) ELSE {})

\* players is a dict in insertion order: a sequence of [id, joined_at].
PlayerIds(session) == {session.players[i].id : i \in 1..Len(session.players)}

(***************************************************************************)
(* Thread bookkeeping.  A handler runs in two steps: the part before the   *)
(* `with LOCK:` block (recv_*: stripping, validation, normalisation, all   *)
(* on data local to the thread), and the block itself, which the lock      *)
(* makes one atomic step.  Every clock reading inside one block sees the   *)
(* same value of `now`.                                                    *)
(***************************************************************************)
Idle(t) == pending[t].op = "idle"

\* A threading.Lock is unlocked or held by the thread that acquired it.
Unlocked == "unlocked"

\* `with LOCK:` lets a thread into the block only when the lock is unlocked.
LockAcquire(lock) == lock = Unlocked

\* The request is rejected before the lock is taken.
Reject(t, op, status_code, detail) ==
    /\ resp' = [resp EXCEPT ![t] = Answer([op |-> op],
                                          HTTPException(status_code, detail))]
    /\ UNCHANGED <<ttl, TEAM_SESSIONS, VERSUS_SESSIONS, TEAM_LOCK, VERSUS_LOCK, now, pending>>

\* The request passed the checks made before the lock and waits for it.
Admit(t, request) ==
    /\ pending' = [pending EXCEPT ![t] = request]
    /\ resp' = [resp EXCEPT ![t] = NoResp]
    /\ UNCHANGED <<ttl, TEAM_SESSIONS, VERSUS_SESSIONS, TEAM_LOCK, VERSUS_LOCK, now>>

\* The handler takes the team lock, runs its block and leaves it with this
\* registry and this answer, the lock unlocked again.
TeamDone(t, store, answer) ==
    /\ LockAcquire(TEAM_LOCK)
    /\ TEAM_SESSIONS' = store
    /\ pending' = [pending EXCEPT ![t] = NoReq]
    /\ resp' = [resp EXCEPT ![t] = Answer(pending[t], answer)]
    /\ UNCHANGED <<ttl, VERSUS_SESSIONS, TEAM_LOCK, VERSUS_LOCK, now>>

\* The handler takes the versus lock, runs its block and leaves it with this
\* registry and this answer, the lock unlocked again.
VersusDone(t, store, answer) ==
    /\ LockAcquire(VERSUS_LOCK)
    /\ VERSUS_SESSIONS' = store
    /\ pending' = [pending EXCEPT ![t] = NoReq]
    /\ resp' = [resp EXCEPT ![t] = Answer(pending[t], answer)]
    /\ UNCHANGED <<ttl, TEAM_SESSIONS, TEAM_LOCK, VERSUS_LOCK, now>>

(***************************************************************************)
(* Team session engine                                                     *)
(***************************************************************************)
\* Variant: a teammate has found the title when somebody has and the
\* requester has not.
_build_team_state_TeammateUnlessYou(session, client_id) ==
    LET title_found_by == session.title_found_by
    IN  [code |-> session.code,
         role |-> IF session.host_id = client_id THEN "host" ELSE "guest",
         player_count |-> Len(session.players),
         is_full |-> Len(session.players) >= TEAM_MAX_PLAYERS,
         min_streams |-> session.min_streams,
         song |-> session.song,
         guesses |-> session.guesses,
         title_found |-> Len(title_found_by) > 0,
         title_found_by_count |-> Len(title_found_by),
         you_found_title |-> client_id \in Range(title_found_by),
         teammate_found_title |-> Len(title_found_by) > 0
                                      /\ client_id \notin Range(title_found_by)]

_build_team_state(session, client_id) ==
    LET title_found_by == session.title_found_by
    IN  [code |-> session.code,
         role |-> IF session.host_id = client_id THEN "host" ELSE "guest",
         player_count |-> Len(session.players),
         is_full |-> Len(session.players) >= TEAM_MAX_PLAYERS,
         min_streams |-> session.min_streams,
         song |-> session.song,
         guesses |-> session.guesses,
         title_found |-> Len(title_found_by) > 0,
         title_found_by_count |-> Len(title_found_by),
         you_found_title |-> client_id \in Range(title_found_by),
         teammate_found_title |-> \E pid \in Range(title_found_by) : pid # client_id]

\* Lines 265-269 and 430-434: the checks of both create handlers.
\* Variant: the title of the song is not looked at.
recv_create_NoTitleCheck(t, op, raw_client_id, min_streams, song) ==
    LET client_id == strip(raw_client_id)
    IN  /\ Idle(t)
        /\ IF client_id = <<>> THEN Reject(t, op, 400, "Missing client_id")
           ELSE IF strip(song.artist) = <<>> \/ strip(song.lyrics) = <<>>
                THEN Reject(t, op, 400, "Incomplete song payload")
           ELSE Admit(t, [op |-> op, client_id |-> client_id,
                          min_streams |-> min_streams, song |-> song])

\* Variant: the lyrics of the song are not looked at.
recv_create_NoLyricsCheck(t, op, raw_client_id, min_streams, song) ==
    LET client_id == strip(raw_client_id)
    IN  /\ Idle(t)
        /\ IF client_id = <<>> THEN Reject(t, op, 400, "Missing client_id")
           ELSE IF strip(song.artist) = <<>> \/ strip(song.title) = <<>>
                THEN Reject(t, op, 400, "Incomplete song payload")
           ELSE Admit(t, [op |-> op, client_id |-> client_id,
                          min_streams |-> min_streams, song |-> song])

recv_create(t, op, raw_client_id, min_streams, song) ==
    LET client_id == strip(raw_client_id)
    IN  /\ Idle(t)
        /\ IF client_id = <<>> THEN Reject(t, op, 400, "Missing client_id")
           ELSE IF strip(song.artist) = <<>> \/ strip(song.title) = <<>>
                   \/ strip(song.lyrics) = <<>>
                THEN Reject(t, op, 400, "Incomplete song payload")
           ELSE Admit(t, [op |-> op, client_id |-> client_id,
                          min_streams |-> min_streams, song |-> song])

recv_create_team_session(t, raw_client_id, min_streams, song) ==
    recv_create(t, "create_team_session", raw_client_id, min_streams, song)

TeamSession(code, client_id, min_streams, song, t0) ==
    [code |-> code,
     host_id |-> client_id,
     created_at |-> t0,
     updated_at |-> t0,
     min_streams |-> Max(0, min_streams),
     song |-> song,
     players |-> <<[id |-> client_id, joined_at |-> t0]>>,
     guesses |-> <<>>,
     guess_index |-> EmptyStore,
     title_found_by |-> <<>>,
     next_seq |-> 1]

create_team_session(t, pool) ==
    /\ pending[t].op = "create_team_session"
    /\ LET req == pending[t]
           store == _cleanup_sessions(TEAM_SESSIONS, now)
       IN  \E code \in _generate_session_code(store, pool, CODE_TRIES) :
               IF code = RuntimeError
               THEN TeamDone(t, store,
                        HTTPException(500, "Unable to generate unique session code"))
               ELSE LET session == TeamSession(code, req.client_id, req.min_streams,
                                               req.song, now)
                    IN  TeamDone(t, Put(store, code, session),
                                 Ok(_build_team_state(session, req.client_id)))

\* Lines 296-301, 323-328, 461-466 and 491-496: the checks of the join and
\* state handlers of both modes.
recv_code_client(t, op, raw_code, raw_client_id) ==
    LET code == upper(strip(raw_code))
        client_id == strip(raw_client_id)
    IN  /\ Idle(t)
        /\ IF code = <<>> THEN Reject(t, op, 400, "Missing code")
           ELSE IF client_id = <<>> THEN Reject(t, op, 400, "Missing client_id")
           ELSE Admit(t, [op |-> op, code |-> code, client_id |-> client_id])

recv_join_team_session(t, raw_code, raw_client_id) ==
    recv_code_client(t, "join_team_session", raw_code, raw_client_id)

\* Variant: the capacity check compares with > instead of >=.
SessionIsFull_OffByOne(session, client_id) ==
    client_id \notin PlayerIds(session) /\ Len(session.players) > TEAM_MAX_PLAYERS

\* Lines 310 and 475: the capacity check on the player dict.
SessionIsFull(session, client_id) ==
    client_id \notin PlayerIds(session) /\ Len(session.players) >= TEAM_MAX_PLAYERS

\* Variant: the player dict is started afresh with the joining client.
JoinPlayers_Afresh(session, client_id, t0) ==
    IF client_id \notin PlayerIds(session)
    THEN <<[id |-> client_id, joined_at |-> t0]>>
    ELSE session.players

\* Lines 313-314 and 478-479: the player dict after the join.
JoinPlayers(session, client_id, t0) ==
    IF client_id \notin PlayerIds(session)
    THEN Append(session.players, [id |-> client_id, joined_at |-> t0])
    ELSE session.players

\* Variant: the client is inserted before the capacity check, which then
\* counts the players.
join_team_session_InsertFirst(t) ==
    /\ pending[t].op = "join_team_session"
    /\ LET req == pending[t]
           store == _cleanup_sessions(TEAM_SESSIONS, now)
       IN  IF req.code \notin DOMAIN store
           THEN TeamDone(t, store, HTTPException(404, "Session not found"))
           ELSE LET session == [store[req.code] EXCEPT
                                    !.players = JoinPlayers(store[req.code],
                                                            req.client_id, now),
                                    !.updated_at = now]
                IN  IF Len(session.players) > TEAM_MAX_PLAYERS
                    THEN TeamDone(t, Put(store, req.code, session),
                                  HTTPException(409, "Session is full"))
                    ELSE TeamDone(t, Put(store, req.code, session),
                                  Ok(_build_team_state(session, req.client_id)))

join_team_session(t) ==
    /\ pending[t].op = "join_team_session"
    /\ LET req == pending[t]
           store == _cleanup_sessions(TEAM_SESSIONS, now)
       IN  IF req.code \notin DOMAIN store
           THEN TeamDone(t, store, HTTPException(404, "Session not found"))
           ELSE IF SessionIsFull(store[req.code], req.client_id)
           THEN TeamDone(t, store, HTTPException(409, "Session is full"))
           ELSE LET session == [store[req.code] EXCEPT
                                    !.players = JoinPlayers(store[req.code],
                                                            req.client_id, now),
                                    !.updated_at = now]
                IN  TeamDone(t, Put(store, req.code, session),
                             Ok(_build_team_state(session, req.client_id)))

recv_get_team_session_state(t, raw_code, raw_client_id) ==
    recv_code_client(t, "get_team_session_state", raw_code, raw_client_id)

get_team_session_state(t) ==
    /\ pending[t].op = "get_team_session_state"
    /\ LET req == pending[t]
           store == _cleanup_sessions(TEAM_SESSIONS, now)
       IN  IF req.code \notin DOMAIN store
           THEN TeamDone(t, store, HTTPException(404, "Session not found"))
           ELSE IF req.client_id \notin PlayerIds(store[req.code])
           THEN TeamDone(t, store, HTTPException(403, "Join session first"))
           ELSE LET session == [store[req.code] EXCEPT !.updated_at = now]
                IN  TeamDone(t, Put(store, req.code, session),
                             Ok(_build_team_state(session, req.client_id)))

\* Lines 345-357 and 513-525: the checks of both guess handlers.
recv_guess(t, op, raw_code, raw_client_id, raw_word) ==
    LET code == upper(strip(raw_code))
        client_id == strip(raw_client_id)
        word == strip(raw_word)
        normalized_word == _normalize_guess_value(word)
    IN  /\ Idle(t)
        /\ IF code = <<>> THEN Reject(t, op, 400, "Missing code")
           ELSE IF client_id = <<>> THEN Reject(t, op, 400, "Missing client_id")
           ELSE IF word = <<>> THEN Reject(t, op, 400, "Missing word")
           ELSE IF normalized_word = <<>> THEN Reject(t, op, 400, "Invalid word")
           ELSE Admit(t, [op |-> op, code |-> code, client_id |-> client_id,
                          word |-> word, normalized_word |-> normalized_word])

recv_add_team_guess(t, raw_code, raw_client_id, raw_word) ==
    recv_guess(t, "add_team_guess", raw_code, raw_client_id, raw_word)

GuessEvent(seq, word, client_id, t0) ==
    [seq |-> seq, word |-> word, client_id |-> client_id, created_at |-> t0]

\* Variant: a new event goes to the ledger and not to the index.
TeamRecordGuess_NoIndex(session, req, t0) ==
    IF req.normalized_word \in DOMAIN session.guess_index
    THEN [session |-> session, accepted |-> FALSE,
          event |-> session.guess_index[req.normalized_word]]
    ELSE LET event == GuessEvent(session.next_seq, req.word, req.client_id, t0)
         IN  [session |-> [session EXCEPT
                               !.next_seq = @ + 1,
                               !.guesses = Append(@, event),
                               !.updated_at = t0],
              accepted |-> TRUE,
              event |-> event]

\* Variant: the new event is put at the head of the ledger.
TeamRecordGuess_Prepend(session, req, t0) ==
    IF req.normalized_word \in DOMAIN session.guess_index
    THEN [session |-> session, accepted |-> FALSE,
          event |-> session.guess_index[req.normalized_word]]
    ELSE LET event == GuessEvent(session.next_seq, req.word, req.client_id, t0)
         IN  [session |-> [session EXCEPT
                               !.next_seq = @ + 1,
                               !.guesses = <<event>> \o @,
                               !.guess_index = Put(@, req.normalized_word, event),
                               !.updated_at = t0],
              accepted |-> TRUE,
              event |-> event]

\* Variant: the index is looked up under the word as typed.
TeamRecordGuess_RawKey(session, req, t0) ==
    IF req.word \in DOMAIN session.guess_index
    THEN [session |-> session, accepted |-> FALSE,
          event |-> session.guess_index[req.word]]
    ELSE LET event == GuessEvent(session.next_seq, req.word, req.client_id, t0)
         IN  [session |-> [session EXCEPT
                               !.next_seq = @ + 1,
                               !.guesses = Append(@, event),
                               !.guess_index = Put(@, req.word, event),
                               !.updated_at = t0],
              accepted |-> TRUE,
              event |-> event]

\* Variant: no dedup lookup, every guess is recorded.
TeamRecordGuess_NoDedup(session, req, t0) ==
    LET event == GuessEvent(session.next_seq, req.word, req.client_id, t0)
    IN  [session |-> [session EXCEPT
                          !.next_seq = @ + 1,
                          !.guesses = Append(@, event),
                          !.guess_index = Put(@, req.normalized_word, event),
                          !.updated_at = t0],
         accepted |-> TRUE,
         event |-> event]

\* Variant: the counter advances before the dedup lookup.
TeamRecordGuess_SeqFirst(session, req, t0) ==
    IF req.normalized_word \in DOMAIN session.guess_index
    THEN [session |-> [session EXCEPT !.next_seq = @ + 1], accepted |-> FALSE,
          event |-> session.guess_index[req.normalized_word]]
    ELSE LET event == GuessEvent(session.next_seq, req.word, req.client_id, t0)
         IN  [session |-> [session EXCEPT
                               !.next_seq = @ + 1,
                               !.guesses = Append(@, event),
                               !.guess_index = Put(@, req.normalized_word, event),
                               !.updated_at = t0],
              accepted |-> TRUE,
              event |-> event]

\* Variant: the index entry is written before the dedup lookup answers.
TeamRecordGuess_Reindex(session, req, t0) ==
    LET event == GuessEvent(session.next_seq, req.word, req.client_id, t0)
    IN  IF req.normalized_word \in DOMAIN session.guess_index
        THEN [session |-> [session EXCEPT
                               !.guess_index = Put(@, req.normalized_word, event)],
              accepted |-> FALSE,
              event |-> session.guess_index[req.normalized_word]]
        ELSE [session |-> [session EXCEPT
                               !.next_seq = @ + 1,
                               !.guesses = Append(@, event),
                               !.guess_index = Put(@, req.normalized_word, event),
                               !.updated_at = t0],
              accepted |-> TRUE,
              event |-> event]

\* Lines 367-382: the dedup lookup and the recording of a new event.
TeamRecordGuess(session, req, t0) ==
    IF req.normalized_word \in DOMAIN session.guess_index
    THEN [session |-> session, accepted |-> FALSE,
          event |-> session.guess_index[req.normalized_word]]
    ELSE LET event == GuessEvent(session.next_seq, req.word, req.client_id, t0)
         IN  [session |-> [session EXCEPT
                               !.next_seq = @ + 1,
                               !.guesses = Append(@, event),
                               !.guess_index = Put(@, req.normalized_word, event),
                               !.updated_at = t0],
              accepted |-> TRUE,
              event |-> event]

\* Variant: the membership check of line 364 is missing.
add_team_guess_NoMemberCheck(t) ==
    /\ pending[t].op = "add_team_guess"
    /\ LET req == pending[t]
           store == _cleanup_sessions(TEAM_SESSIONS, now)
       IN  IF req.code \notin DOMAIN store
           THEN TeamDone(t, store, HTTPException(404, "Session not found"))
           ELSE LET r == TeamRecordGuess(store[req.code], req, now)
                IN  TeamDone(t, Put(store, req.code, r.session),
                             Ok([accepted |-> r.accepted, event |-> r.event]))

\* Variant: a session whose two members have found the title takes no more
\* guesses.
add_team_guess_ClosedWhenFound(t) ==
    /\ pending[t].op = "add_team_guess"
    /\ LET req == pending[t]
           store == _cleanup_sessions(TEAM_SESSIONS, now)
       IN  IF req.code \notin DOMAIN store
           THEN TeamDone(t, store, HTTPException(404, "Session not found"))
           ELSE IF req.client_id \notin PlayerIds(store[req.code])
           THEN TeamDone(t, store, HTTPException(403, "Join session first"))
           ELSE IF Len(store[req.code].title_found_by) >= TEAM_MAX_PLAYERS
           THEN TeamDone(t, store, HTTPException(409, "Session already finished"))
           ELSE LET r == TeamRecordGuess(store[req.code], req, now)
                IN  TeamDone(t, Put(store, req.code, r.session),
                             Ok([accepted |-> r.accepted, event |-> r.event]))

add_team_guess(t) ==
    /\ pending[t].op = "add_team_guess"
    /\ LET req == pending[t]
           store == _cleanup_sessions(TEAM_SESSIONS, now)
       IN  IF req.code \notin DOMAIN store
           THEN TeamDone(t, store, HTTPException(404, "Session not found"))
           ELSE IF req.client_id \notin PlayerIds(store[req.code])
           THEN TeamDone(t, store, HTTPException(403, "Join session first"))
           ELSE LET r == TeamRecordGuess(store[req.code], req, now)
                IN  TeamDone(t, Put(store, req.code, r.session),
                             Ok([accepted |-> r.accepted, event |-> r.event]))

\* Lines 387-395 and 558-566: the checks of both title-guess handlers.
recv_title_guess(t, op, raw_code, raw_client_id, raw_title) ==
    LET code == upper(strip(raw_code))
        client_id == strip(raw_client_id)
        title_guess == strip(raw_title)
    IN  /\ Idle(t)
        /\ IF code = <<>> THEN Reject(t, op, 400, "Missing code")
           ELSE IF client_id = <<>> THEN Reject(t, op, 400, "Missing client_id")
           ELSE IF title_guess = <<>> THEN Reject(t, op, 400, "Missing title")
           ELSE Admit(t, [op |-> op, code |-> code, client_id |-> client_id,
                          title_guess |-> title_guess])

recv_add_team_title_guess(t, raw_code, raw_client_id, raw_title) ==
    recv_title_guess(t, "add_team_title_guess", raw_code, raw_client_id, raw_title)

\* Variant: only the guess is checked for an empty normal form.
TitleCheck_GuessOnly(session, title_guess) ==
    IF strip(session.song.title) = <<>> THEN 500
    ELSE IF _normalize_title_value(title_guess) = <<>> THEN 400
    ELSE 0

\* Lines 405-412 and 576-583: 0 when the guess can be compared with the
\* stored title, else the status of the error raised.
TitleCheck(session, title_guess) ==
    IF strip(session.song.title) = <<>> THEN 500
    ELSE IF _normalize_title_value(session.song.title) = <<>>
            \/ _normalize_title_value(title_guess) = <<>> THEN 400
    ELSE 0

\* Variant: the guess is correct when its normal form occurs in the normal
\* form of the stored title, or the other way round.
TitleCorrect_Contains(session, title_guess) ==
    LET g == _normalize_title_value(title_guess)
        s == _normalize_title_value(session.song.title)
    IN  \/ \E i \in 1..Len(s) : i + Len(g) - 1 <= Len(s)
                                  /\ SubSeq(s, i, i + Len(g) - 1) = g
        \/ \E i \in 1..Len(g) : i + Len(s) - 1 <= Len(g)
                                  /\ SubSeq(g, i, i + Len(s) - 1) = s

TitleCorrect(session, title_guess) ==
    _normalize_title_value(title_guess) = _normalize_title_value(session.song.title)

TitleError(status_code) ==
    IF status_code = 500 THEN HTTPException(500, "Session song title missing")
    ELSE HTTPException(400, "Invalid title")

\* The answer of a title guess: correct, title and the fields of the view.
TitleAnswer(correct, session, state) ==
    Ok([correct |-> correct,
        title |-> IF correct THEN session.song.title ELSE None,
        state |-> state])

\* Variant: every judged guess refreshes the last activity.
TeamRecordTitle_TouchAlways(session, client_id, correct, t0) ==
    IF correct /\ client_id \notin Range(session.title_found_by)
    THEN [session EXCEPT !.title_found_by = Append(@, client_id),
                         !.updated_at = t0]
    ELSE [session EXCEPT !.updated_at = t0]

\* Variant: every correct guess is appended to the finder list.
TeamRecordTitle_AppendAlways(session, client_id, correct, t0) ==
    IF correct
    THEN [session EXCEPT !.title_found_by = Append(@, client_id),
                         !.updated_at = t0]
    ELSE session

\* Lines 414-418: the finder list after the guess.
TeamRecordTitle(session, client_id, correct, t0) ==
    IF correct /\ client_id \notin Range(session.title_found_by)
    THEN [session EXCEPT !.title_found_by = Append(@, client_id),
                         !.updated_at = t0]
    ELSE session

add_team_title_guess(t) ==
    /\ pending[t].op = "add_team_title_guess"
    /\ LET req == pending[t]
           store == _cleanup_sessions(TEAM_SESSIONS, now)
       IN  IF req.code \notin DOMAIN store
           THEN TeamDone(t, store, HTTPException(404, "Session not found"))
           ELSE IF req.client_id \notin PlayerIds(store[req.code])
           THEN TeamDone(t, store, HTTPException(403, "Join session first"))
           ELSE IF TitleCheck(store[req.code], req.title_guess) # 0
           THEN TeamDone(t, store,
                         TitleError(TitleCheck(store[req.code], req.title_guess)))
           ELSE LET correct == TitleCorrect(store[req.code], req.title_guess)
                    session == TeamRecordTitle(store[req.code], req.client_id,
                                               correct, now)
                IN  TeamDone(t, Put(store, req.code, session),
                             TitleAnswer(correct, session,
                                         _build_team_state(session, req.client_id)))

(***************************************************************************)
(* Versus session engine                                                   *)
(***************************************************************************)
\* dict.get(key, default) on a dict modelled as a function.
Get(dict, key, default) == IF key \in DOMAIN dict THEN dict[key] ELSE default

\* Line 237: the first player in insertion order other than the requester.
\* Variant: the opponent is the first player, whoever asks.
OpponentId_First(session, client_id) == session.players[1].id

OpponentId(session, client_id) ==
    LET others == {i \in 1..Len(session.players) : session.players[i].id # client_id}
    IN  IF others = {} THEN <<>>
        ELSE session.players[CHOOSE i \in others : \A j \in others : i <= j].id

_build_versus_state(session, client_id) ==
    LET opponent_id == OpponentId(session, client_id)
        winner_id == session.winner_id
    IN  [code |-> session.code,
         role |-> IF session.host_id = client_id THEN "host" ELSE "guest",
         player_count |-> Len(session.players),
         is_full |-> Len(session.players) >= TEAM_MAX_PLAYERS,
         min_streams |-> session.min_streams,
         song |-> session.song,
         your_guesses |-> Get(session.guesses_by_player, client_id, <<>>),
         opponent_guesses |-> Get(session.guesses_by_player, opponent_id, <<>>),
         opponent_id |-> opponent_id,
         winner_id |-> winner_id,
         finished |-> winner_id # <<>>,
         you_won |-> winner_id # <<>> /\ winner_id = client_id,
         opponent_won |-> winner_id # <<>> /\ winner_id # client_id]

recv_create_versus_session(t, raw_client_id, min_streams, song) ==
    recv_create(t, "create_versus_session", raw_client_id, min_streams, song)

VersusSession(code, client_id, min_streams, song, t0) ==
    [code |-> code,
     host_id |-> client_id,
     created_at |-> t0,
     updated_at |-> t0,
     min_streams |-> Max(0, min_streams),
     song |-> song,
     players |-> <<[id |-> client_id, joined_at |-> t0]>>,
     guesses_by_player |-> Put(EmptyStore, client_id, <<>>),
     guess_index_by_player |-> Put(EmptyStore, client_id, EmptyStore),
     next_seq |-> 1,
     winner_id |-> <<>>]

create_versus_session(t, pool) ==
    /\ pending[t].op = "create_versus_session"
    /\ LET req == pending[t]
           store == _cleanup_sessions(VERSUS_SESSIONS, now)
       IN  \E code \in _generate_session_code(store, pool, CODE_TRIES) :
               IF code = RuntimeError
               THEN VersusDone(t, store,
                        HTTPException(500, "Unable to generate unique session code"))
               ELSE LET session == VersusSession(code, req.client_id, req.min_streams,
                                                 req.song, now)
                    IN  VersusDone(t, Put(store, code, session),
                                   Ok(_build_versus_state(session, req.client_id)))

recv_join_versus_session(t, raw_code, raw_client_id) ==
    recv_code_client(t, "join_versus_session", raw_code, raw_client_id)

\* Variant: the ledger and the index are reset on every join.
VersusJoin_ResetLedger(session, client_id, t0) ==
    [session EXCEPT
         !.players = JoinPlayers(session, client_id, t0),
         !.guesses_by_player = Put(@, client_id, <<>>),
         !.guess_index_by_player = Put(@, client_id, EmptyStore),
         !.updated_at = t0]

\* Lines 478-483: a new player gets an empty ledger and an empty index.
VersusJoin(session, client_id, t0) ==
    IF client_id \notin PlayerIds(session)
    THEN [session EXCEPT
              !.players = JoinPlayers(session, client_id, t0),
              !.guesses_by_player = Put(@, client_id, <<>>),
              !.guess_index_by_player = Put(@, client_id, EmptyStore),
              !.updated_at = t0]
    ELSE [session EXCEPT !.updated_at = t0]

join_versus_session(t) ==
    /\ pending[t].op = "join_versus_session"
    /\ LET req == pending[t]
           store == _cleanup_sessions(VERSUS_SESSIONS, now)
       IN  IF req.code \notin DOMAIN store
           THEN VersusDone(t, store, HTTPException(404, "Session not found"))
           ELSE IF SessionIsFull(store[req.code], req.client_id)
           THEN VersusDone(t, store, HTTPException(409, "Session is full"))
           ELSE LET session == VersusJoin(store[req.code], req.client_id, now)
                IN  VersusDone(t, Put(store, req.code, session),
                               Ok(_build_versus_state(session, req.client_id)))

recv_get_versus_session_state(t, raw_code, raw_client_id) ==
    recv_code_client(t, "get_versus_session_state", raw_code, raw_client_id)

get_versus_session_state(t) ==
    /\ pending[t].op = "get_versus_session_state"
    /\ LET req == pending[t]
           store == _cleanup_sessions(VERSUS_SESSIONS, now)
       IN  IF req.code \notin DOMAIN store
           THEN VersusDone(t, store, HTTPException(404, "Session not found"))
           ELSE IF req.client_id \notin PlayerIds(store[req.code])
           THEN VersusDone(t, store, HTTPException(403, "Join session first"))
           ELSE LET session == [store[req.code] EXCEPT !.updated_at = now]
                IN  VersusDone(t, Put(store, req.code, session),
                               Ok(_build_versus_state(session, req.client_id)))

recv_add_versus_guess(t, raw_code, raw_client_id, raw_word) ==
    recv_guess(t, "add_versus_guess", raw_code, raw_client_id, raw_word)

\* Variant: the counter is not advanced after a recorded guess.
VersusRecordGuess_SeqStuck(session, req, t0) ==
    LET player_guess_index == Get(session.guess_index_by_player, req.client_id,
                                  EmptyStore)
    IN  IF req.normalized_word \in DOMAIN player_guess_index
        THEN [session |-> session, accepted |-> FALSE,
              event |-> player_guess_index[req.normalized_word]]
        ELSE LET event == GuessEvent(session.next_seq, req.word, req.client_id, t0)
             IN  [session |-> [session EXCEPT
                     !.guesses_by_player =
                         Put(@, req.client_id,
                             Append(Get(@, req.client_id, <<>>), event)),
                     !.guess_index_by_player =
                         Put(@, req.client_id,
                             Put(player_guess_index, req.normalized_word, event)),
                     !.updated_at = t0],
                  accepted |-> TRUE,
                  event |-> event]

\* Variant: the lookup goes through the index of every player.
VersusRecordGuess_SharedIndex(session, req, t0) ==
    LET player_guess_index == Get(session.guess_index_by_player, req.client_id,
                                  EmptyStore)
        holders == {pid \in DOMAIN session.guess_index_by_player :
                        req.normalized_word
                            \in DOMAIN session.guess_index_by_player[pid]}
    IN  IF holders # {}
        THEN [session |-> session, accepted |-> FALSE,
              event |-> session.guess_index_by_player
                            [CHOOSE pid \in holders : TRUE][req.normalized_word]]
        ELSE LET event == GuessEvent(session.next_seq, req.word, req.client_id, t0)
             IN  [session |-> [session EXCEPT
                     !.next_seq = @ + 1,
                     !.guesses_by_player =
                         Put(@, req.client_id,
                             Append(Get(@, req.client_id, <<>>), event)),
                     !.guess_index_by_player =
                         Put(@, req.client_id,
                             Put(player_guess_index, req.normalized_word, event)),
                     !.updated_at = t0],
                  accepted |-> TRUE,
                  event |-> event]

\* Variant: an event is numbered by its place in the player's own ledger.
VersusRecordGuess_PerPlayerSeq(session, req, t0) ==
    LET player_guess_index == Get(session.guess_index_by_player, req.client_id,
                                  EmptyStore)
        own == Get(session.guesses_by_player, req.client_id, <<>>)
    IN  IF req.normalized_word \in DOMAIN player_guess_index
        THEN [session |-> session, accepted |-> FALSE,
              event |-> player_guess_index[req.normalized_word]]
        ELSE LET event == GuessEvent(Len(own) + 1, req.word, req.client_id, t0)
             IN  [session |-> [session EXCEPT
                     !.next_seq = @ + 1,
                     !.guesses_by_player = Put(@, req.client_id, Append(own, event)),
                     !.guess_index_by_player =
                         Put(@, req.client_id,
                             Put(player_guess_index, req.normalized_word, event)),
                     !.updated_at = t0],
                  accepted |-> TRUE,
                  event |-> event]

\* Variant: the counter advances on a deduplicated guess too.
VersusRecordGuess_SeqOnDedup(session, req, t0) ==
    LET player_guess_index == Get(session.guess_index_by_player, req.client_id,
                                  EmptyStore)
    IN  IF req.normalized_word \in DOMAIN player_guess_index
        THEN [session |-> [session EXCEPT !.next_seq = @ + 1],
              accepted |-> FALSE,
              event |-> player_guess_index[req.normalized_word]]
        ELSE LET event == GuessEvent(session.next_seq, req.word, req.client_id, t0)
             IN  [session |-> [session EXCEPT
                     !.next_seq = @ + 1,
                     !.guesses_by_player =
                         Put(@, req.client_id,
                             Append(Get(@, req.client_id, <<>>), event)),
                     !.guess_index_by_player =
                         Put(@, req.client_id,
                             Put(player_guess_index, req.normalized_word, event)),
                     !.updated_at = t0],
                  accepted |-> TRUE,
                  event |-> event]

\* Lines 537-553: the lookup in the player's own index and the recording of
\* a new event in the player's own ledger, numbered by the session counter.
VersusRecordGuess(session, req, t0) ==
    LET player_guess_index == Get(session.guess_index_by_player, req.client_id,
                                  EmptyStore)
    IN  IF req.normalized_word \in DOMAIN player_guess_index
        THEN [session |-> session, accepted |-> FALSE,
              event |-> player_guess_index[req.normalized_word]]
        ELSE LET event == GuessEvent(session.next_seq, req.word, req.client_id, t0)
             IN  [session |-> [session EXCEPT
                     !.next_seq = @ + 1,
                     !.guesses_by_player =
                         Put(@, req.client_id,
                             Append(Get(@, req.client_id, <<>>), event)),
                     !.guess_index_by_player =
                         Put(@, req.client_id,
                             Put(player_guess_index, req.normalized_word, event)),
                     !.updated_at = t0],
                  accepted |-> TRUE,
                  event |-> event]

\* Variant: the finished check is missing.
SessionFinished_Never(session) == FALSE

\* Line 534: the session is finished.
SessionFinished(session) == session.winner_id # <<>>

\* Variant: the check for a winner comes before the membership check.
add_versus_guess_FinishedFirst(t) ==
    /\ pending[t].op = "add_versus_guess"
    /\ LET req == pending[t]
           store == _cleanup_sessions(VERSUS_SESSIONS, now)
       IN  IF req.code \notin DOMAIN store
           THEN VersusDone(t, store, HTTPException(404, "Session not found"))
           ELSE IF SessionFinished(store[req.code])
           THEN VersusDone(t, store, HTTPException(409, "Session finished"))
           ELSE IF req.client_id \notin PlayerIds(store[req.code])
           THEN VersusDone(t, store, HTTPException(403, "Join session first"))
           ELSE LET r == VersusRecordGuess(store[req.code], req, now)
                IN  VersusDone(t, Put(store, req.code, r.session),
                               Ok([accepted |-> r.accepted, event |-> r.event]))

add_versus_guess(t) ==
    /\ pending[t].op = "add_versus_guess"
    /\ LET req == pending[t]
           store == _cleanup_sessions(VERSUS_SESSIONS, now)
       IN  IF req.code \notin DOMAIN store
           THEN VersusDone(t, store, HTTPException(404, "Session not found"))
           ELSE IF req.client_id \notin PlayerIds(store[req.code])
           THEN VersusDone(t, store, HTTPException(403, "Join session first"))
           ELSE IF SessionFinished(store[req.code])
           THEN VersusDone(t, store, HTTPException(409, "Session finished"))
           ELSE LET r == VersusRecordGuess(store[req.code], req, now)
                IN  VersusDone(t, Put(store, req.code, r.session),
                               Ok([accepted |-> r.accepted, event |-> r.event]))

recv_add_versus_title_guess(t, raw_code, raw_client_id, raw_title) ==
    recv_title_guess(t, "add_versus_title_guess", raw_code, raw_client_id, raw_title)

\* Variant: a correct guess sets the winner whether or not one is set.
VersusRecordTitle_Overwrite(session, client_id, correct, t0) ==
    IF correct
    THEN [session EXCEPT !.winner_id = client_id, !.updated_at = t0]
    ELSE session

\* Variant: a wrong guess clears the winner.
VersusRecordTitle_ClearOnWrong(session, client_id, correct, t0) ==
    IF correct /\ session.winner_id = <<>>
    THEN [session EXCEPT !.winner_id = client_id, !.updated_at = t0]
    ELSE IF ~correct THEN [session EXCEPT !.winner_id = <<>>]
    ELSE session

\* Lines 585-589: the winner after the guess.
VersusRecordTitle(session, client_id, correct, t0) ==
    IF correct /\ session.winner_id = <<>>
    THEN [session EXCEPT !.winner_id = client_id, !.updated_at = t0]
    ELSE session

\* Variant: the membership check of line 573 is missing.
add_versus_title_guess_NoMemberCheck(t) ==
    /\ pending[t].op = "add_versus_title_guess"
    /\ LET req == pending[t]
           store == _cleanup_sessions(VERSUS_SESSIONS, now)
       IN  IF req.code \notin DOMAIN store
           THEN VersusDone(t, store, HTTPException(404, "Session not found"))
           ELSE IF TitleCheck(store[req.code], req.title_guess) # 0
           THEN VersusDone(t, store,
                           TitleError(TitleCheck(store[req.code], req.title_guess)))
           ELSE LET correct == TitleCorrect(store[req.code], req.title_guess)
                    session == VersusRecordTitle(store[req.code], req.client_id,
                                                 correct, now)
                IN  VersusDone(t, Put(store, req.code, session),
                               TitleAnswer(correct, session,
                                           _build_versus_state(session, req.client_id)))

add_versus_title_guess(t) ==
    /\ pending[t].op = "add_versus_title_guess"
    /\ LET req == pending[t]
           store == _cleanup_sessions(VERSUS_SESSIONS, now)
       IN  IF req.code \notin DOMAIN store
           THEN VersusDone(t, store, HTTPException(404, "Session not found"))
           ELSE IF req.client_id \notin PlayerIds(store[req.code])
           THEN VersusDone(t, store, HTTPException(403, "Join session first"))
           ELSE IF TitleCheck(store[req.code], req.title_guess) # 0
           THEN VersusDone(t, store,
                           TitleError(TitleCheck(store[req.code], req.title_guess)))
           ELSE LET correct == TitleCorrect(store[req.code], req.title_guess)
                    session == VersusRecordTitle(store[req.code], req.client_id,
                                                 correct, now)
                IN  VersusDone(t, Put(store, req.code, session),
                               TitleAnswer(correct, session,
                                           _build_versus_state(session, req.client_id)))

(***************************************************************************)
(* add_team_guess, add_versus_title_guess and get_team_session_state,      *)
(* statement by statement                                                  *)
(*                                                                         *)
(* The `with LOCK:` block of each of the three handlers is split at every  *)
(* statement that writes to the session.  A thread inside a block keeps    *)
(* the request it serves, the line it runs next and its local values in    *)
(* pending[t].  The steps after the acquisition test nothing but the       *)
(* thread's own position: only the acquisition looks at the lock.          *)
(*                                                                         *)
(* The view of _build_team_state holds under "guesses" the session's own   *)
(* list (line 227), not a copy, and get_team_session_state returns it on   *)
(* line 340, after the block.  The ledger of the answer is therefore read  *)
(* when the answer is written out, whatever the registry holds by then.    *)
(***************************************************************************)
NoLocal == [none |-> TRUE]

InBlock(lock, request, at, local) ==
    [op |-> "in_block", lock |-> lock, request |-> request, at |-> at,
     local |-> local]

At(t, lock, at) ==
    /\ pending[t].op = "in_block"
    /\ pending[t].lock = lock
    /\ pending[t].at = at

\* Line 359, `with TEAM_LOCK:`, the acquisition.
add_team_guess_359(t) ==
    /\ pending[t].op = "add_team_guess"
    /\ LockAcquire(TEAM_LOCK)
    /\ TEAM_LOCK' = t
    /\ pending' = [pending EXCEPT ![t] = InBlock("TEAM_LOCK", pending[t], 360,
                                                  NoLocal)]
    /\ UNCHANGED <<ttl, TEAM_SESSIONS, VERSUS_SESSIONS, VERSUS_LOCK, now, resp>>

\* Line 360, the eviction pass.
add_team_guess_360(t) ==
    /\ At(t, "TEAM_LOCK", 360)
    /\ TEAM_SESSIONS' = _cleanup_sessions(TEAM_SESSIONS, now)
    /\ pending' = [pending EXCEPT ![t].at = 361]
    /\ UNCHANGED <<ttl, VERSUS_SESSIONS, TEAM_LOCK, VERSUS_LOCK, now, resp>>

\* Variant: the block is left with the lock still held.
TeamLeave_Held(t, answer) ==
    /\ pending' = [pending EXCEPT ![t] = NoReq]
    /\ resp' = [resp EXCEPT ![t] = Answer(pending[t].request, answer)]
    /\ UNCHANGED <<ttl, TEAM_SESSIONS, VERSUS_SESSIONS, TEAM_LOCK, VERSUS_LOCK, now>>

\* The thread leaves the team block, by `return` or `raise`: the lock is
\* released and the answer goes out.
TeamLeave(t, answer) ==
    /\ TEAM_LOCK' = Unlocked
    /\ pending' = [pending EXCEPT ![t] = NoReq]
    /\ resp' = [resp EXCEPT ![t] = Answer(pending[t].request, answer)]
    /\ UNCHANGED <<ttl, TEAM_SESSIONS, VERSUS_SESSIONS, VERSUS_LOCK, now>>

\* Lines 361-377: the lookup, the membership check, the dedup lookup and the
\* event built from the counter's current value.  Nothing is written.
add_team_guess_361(t) ==
    /\ At(t, "TEAM_LOCK", 361)
    /\ LET req == pending[t].request
       IN  IF req.code \notin DOMAIN TEAM_SESSIONS
           THEN TeamLeave(t, HTTPException(404, "Session not found"))
           ELSE IF req.client_id \notin PlayerIds(TEAM_SESSIONS[req.code])
           THEN TeamLeave(t, HTTPException(403, "Join session first"))
           ELSE IF req.normalized_word
                       \in DOMAIN TEAM_SESSIONS[req.code].guess_index
           THEN TeamLeave(t,
                    Ok([accepted |-> FALSE,
                        event |-> TEAM_SESSIONS[req.code].guess_index[
                                      req.normalized_word]]))
           ELSE /\ pending' =
                       [pending EXCEPT
                            ![t].at = 378,
                            ![t].local =
                                GuessEvent(TEAM_SESSIONS[req.code].next_seq,
                                           req.word, req.client_id, now)]
                /\ UNCHANGED <<ttl, TEAM_SESSIONS, VERSUS_SESSIONS, TEAM_LOCK,
                               VERSUS_LOCK, now, resp>>

\* Line 378, session["next_seq"] += 1.
add_team_guess_378(t) ==
    /\ At(t, "TEAM_LOCK", 378)
    /\ TEAM_SESSIONS' = [TEAM_SESSIONS EXCEPT
                             ![pending[t].request.code].next_seq = @ + 1]
    /\ pending' = [pending EXCEPT ![t].at = 379]
    /\ UNCHANGED <<ttl, VERSUS_SESSIONS, TEAM_LOCK, VERSUS_LOCK, now, resp>>

\* Line 379, the event is appended to the ledger.
add_team_guess_379(t) ==
    /\ At(t, "TEAM_LOCK", 379)
    /\ TEAM_SESSIONS' = [TEAM_SESSIONS EXCEPT
                             ![pending[t].request.code].guesses =
                                 Append(@, pending[t].local)]
    /\ pending' = [pending EXCEPT ![t].at = 380]
    /\ UNCHANGED <<ttl, VERSUS_SESSIONS, TEAM_LOCK, VERSUS_LOCK, now, resp>>

\* Line 380, the event is indexed under its key.
add_team_guess_380(t) ==
    /\ At(t, "TEAM_LOCK", 380)
    /\ TEAM_SESSIONS' = [TEAM_SESSIONS EXCEPT
                             ![pending[t].request.code].guess_index =
                                 Put(@, pending[t].request.normalized_word,
                                     pending[t].local)]
    /\ pending' = [pending EXCEPT ![t].at = 381]
    /\ UNCHANGED <<ttl, VERSUS_SESSIONS, TEAM_LOCK, VERSUS_LOCK, now, resp>>

\* Line 381, the last activity is refreshed.
add_team_guess_381(t) ==
    /\ At(t, "TEAM_LOCK", 381)
    /\ TEAM_SESSIONS' = [TEAM_SESSIONS EXCEPT
                             ![pending[t].request.code].updated_at = now]
    /\ pending' = [pending EXCEPT ![t].at = 382]
    /\ UNCHANGED <<ttl, VERSUS_SESSIONS, TEAM_LOCK, VERSUS_LOCK, now, resp>>

\* Line 382, the return.
add_team_guess_382(t) ==
    /\ At(t, "TEAM_LOCK", 382)
    /\ TeamLeave(t, Ok([accepted |-> TRUE, event |-> pending[t].local]))

\* Line 330, `with TEAM_LOCK:`, the acquisition.
get_team_session_state_330(t) ==
    /\ pending[t].op = "get_team_session_state"
    /\ LockAcquire(TEAM_LOCK)
    /\ TEAM_LOCK' = t
    /\ pending' = [pending EXCEPT ![t] = InBlock("TEAM_LOCK", pending[t], 331,
                                                  NoLocal)]
    /\ UNCHANGED <<ttl, TEAM_SESSIONS, VERSUS_SESSIONS, VERSUS_LOCK, now, resp>>

\* Line 331, the eviction pass.
get_team_session_state_331(t) ==
    /\ At(t, "TEAM_LOCK", 331)
    /\ TEAM_SESSIONS' = _cleanup_sessions(TEAM_SESSIONS, now)
    /\ pending' = [pending EXCEPT ![t].at = 332]
    /\ UNCHANGED <<ttl, VERSUS_SESSIONS, TEAM_LOCK, VERSUS_LOCK, now, resp>>

\* Lines 332-338: the lookup, the membership check, the refresh of the last
\* activity and the view; the block ends and the lock is released.  The
\* thread is left with the view to return.
get_team_session_state_332(t) ==
    /\ At(t, "TEAM_LOCK", 332)
    /\ LET req == pending[t].request
       IN  IF req.code \notin DOMAIN TEAM_SESSIONS
           THEN TeamLeave(t, HTTPException(404, "Session not found"))
           ELSE IF req.client_id \notin PlayerIds(TEAM_SESSIONS[req.code])
           THEN TeamLeave(t, HTTPException(403, "Join session first"))
           ELSE LET session == [TEAM_SESSIONS[req.code] EXCEPT
                                    !.updated_at = now]
                IN  /\ TEAM_SESSIONS' = Put(TEAM_SESSIONS, req.code, session)
                    /\ TEAM_LOCK' = Unlocked
                    /\ pending' =
                           [pending EXCEPT
                                ![t] = [op |-> "returning", request |-> req,
                                        state |-> _build_team_state(
                                                      session, req.client_id)]]
                    /\ UNCHANGED <<ttl, VERSUS_SESSIONS, VERSUS_LOCK, now, resp>>

\* Line 340, `return state`: the answer is written out, its ledger being the
\* session's list as it is at that moment.
get_team_session_state_340(t) ==
    /\ pending[t].op = "returning"
    /\ pending' = [pending EXCEPT ![t] = NoReq]
    /\ resp' = [resp EXCEPT
                    ![t] = Answer(pending[t].request,
                                  Ok([pending[t].state EXCEPT
                                          !.guesses =
                                              TEAM_SESSIONS[
                                                  pending[t].request.code
                                              ].guesses]))]
    /\ UNCHANGED <<ttl, TEAM_SESSIONS, VERSUS_SESSIONS, TEAM_LOCK, VERSUS_LOCK, now>>

\* Line 568, `with VERSUS_LOCK:`, the acquisition.
add_versus_title_guess_568(t) ==
    /\ pending[t].op = "add_versus_title_guess"
    /\ LockAcquire(VERSUS_LOCK)
    /\ VERSUS_LOCK' = t
    /\ pending' = [pending EXCEPT ![t] = InBlock("VERSUS_LOCK", pending[t], 569,
                                                  NoLocal)]
    /\ UNCHANGED <<ttl, TEAM_SESSIONS, VERSUS_SESSIONS, TEAM_LOCK, now, resp>>

\* Line 569, the eviction pass.
add_versus_title_guess_569(t) ==
    /\ At(t, "VERSUS_LOCK", 569)
    /\ VERSUS_SESSIONS' = _cleanup_sessions(VERSUS_SESSIONS, now)
    /\ pending' = [pending EXCEPT ![t].at = 570]
    /\ UNCHANGED <<ttl, TEAM_SESSIONS, TEAM_LOCK, VERSUS_LOCK, now, resp>>

\* The thread leaves the versus block, by `return` or `raise`.
VersusLeave(t, answer) ==
    /\ VERSUS_LOCK' = Unlocked
    /\ pending' = [pending EXCEPT ![t] = NoReq]
    /\ resp' = [resp EXCEPT ![t] = Answer(pending[t].request, answer)]
    /\ UNCHANGED <<ttl, TEAM_SESSIONS, VERSUS_SESSIONS, TEAM_LOCK, now>>

\* Lines 570-587: the lookup, the checks, the comparison and the test of the
\* winner.  Nothing is written.
add_versus_title_guess_570(t) ==
    /\ At(t, "VERSUS_LOCK", 570)
    /\ LET req == pending[t].request
       IN  IF req.code \notin DOMAIN VERSUS_SESSIONS
           THEN VersusLeave(t, HTTPException(404, "Session not found"))
           ELSE IF req.client_id \notin PlayerIds(VERSUS_SESSIONS[req.code])
           THEN VersusLeave(t, HTTPException(403, "Join session first"))
           ELSE IF TitleCheck(VERSUS_SESSIONS[req.code], req.title_guess) # 0
           THEN VersusLeave(t,
                    TitleError(TitleCheck(VERSUS_SESSIONS[req.code],
                                          req.title_guess)))
           ELSE LET correct == TitleCorrect(VERSUS_SESSIONS[req.code],
                                            req.title_guess)
                IN  /\ pending' =
                           [pending EXCEPT
                                ![t].at =
                                    IF /\ correct
                                       /\ VERSUS_SESSIONS[req.code].winner_id
                                              = <<>>
                                    THEN 588 ELSE 591,
                                ![t].local = [correct |-> correct]]
                    /\ UNCHANGED <<ttl, TEAM_SESSIONS, VERSUS_SESSIONS, TEAM_LOCK,
                                   VERSUS_LOCK, now, resp>>

\* Line 588, the caller becomes the winner.
add_versus_title_guess_588(t) ==
    /\ At(t, "VERSUS_LOCK", 588)
    /\ VERSUS_SESSIONS' = [VERSUS_SESSIONS EXCEPT
                               ![pending[t].request.code].winner_id =
                                   pending[t].request.client_id]
    /\ pending' = [pending EXCEPT ![t].at = 589]
    /\ UNCHANGED <<ttl, TEAM_SESSIONS, TEAM_LOCK, VERSUS_LOCK, now, resp>>

\* Line 589, the last activity is refreshed.
add_versus_title_guess_589(t) ==
    /\ At(t, "VERSUS_LOCK", 589)
    /\ VERSUS_SESSIONS' = [VERSUS_SESSIONS EXCEPT
                               ![pending[t].request.code].updated_at = now]
    /\ pending' = [pending EXCEPT ![t].at = 591]
    /\ UNCHANGED <<ttl, TEAM_SESSIONS, TEAM_LOCK, VERSUS_LOCK, now, resp>>

\* Lines 591-596, the view is built from the session as it is now and returned.
add_versus_title_guess_591(t) ==
    /\ At(t, "VERSUS_LOCK", 591)
    /\ LET req == pending[t].request
           session == VERSUS_SESSIONS[req.code]
       IN  VersusLeave(t, TitleAnswer(pending[t].local.correct, session,
                                      _build_versus_state(session,
                                                          req.client_id)))

\* Line 527, `with VERSUS_LOCK:`, the acquisition.
add_versus_guess_527(t) ==
    /\ pending[t].op = "add_versus_guess"
    /\ LockAcquire(VERSUS_LOCK)
    /\ VERSUS_LOCK' = t
    /\ pending' = [pending EXCEPT ![t] = InBlock("VERSUS_LOCK", pending[t], 528,
                                                  NoLocal)]
    /\ UNCHANGED <<ttl, TEAM_SESSIONS, VERSUS_SESSIONS, TEAM_LOCK, now, resp>>

\* Line 528, the eviction pass.
add_versus_guess_528(t) ==
    /\ At(t, "VERSUS_LOCK", 528)
    /\ VERSUS_SESSIONS' = _cleanup_sessions(VERSUS_SESSIONS, now)
    /\ pending' = [pending EXCEPT ![t].at = 529]
    /\ UNCHANGED <<ttl, TEAM_SESSIONS, TEAM_LOCK, VERSUS_LOCK, now, resp>>

\* Lines 529-548: the lookup, the membership check, the check for a winner,
\* the dedup lookup in the player's own index and the event built from the
\* counter's current value.  Nothing is written.
add_versus_guess_529(t) ==
    /\ At(t, "VERSUS_LOCK", 529)
    /\ LET req == pending[t].request
       IN  IF req.code \notin DOMAIN VERSUS_SESSIONS
           THEN VersusLeave(t, HTTPException(404, "Session not found"))
           ELSE IF req.client_id \notin PlayerIds(VERSUS_SESSIONS[req.code])
           THEN VersusLeave(t, HTTPException(403, "Join session first"))
           ELSE IF SessionFinished(VERSUS_SESSIONS[req.code])
           THEN VersusLeave(t, HTTPException(409, "Session finished"))
           ELSE LET session == VERSUS_SESSIONS[req.code]
                    player_guess_index ==
                        Get(session.guess_index_by_player, req.client_id,
                            EmptyStore)
                IN  IF req.normalized_word \in DOMAIN player_guess_index
                    THEN VersusLeave(t,
                             Ok([accepted |-> FALSE,
                                 event |-> player_guess_index[
                                               req.normalized_word]]))
                    ELSE /\ pending' =
                                [pending EXCEPT
                                     ![t].at = 549,
                                     ![t].local =
                                         GuessEvent(session.next_seq, req.word,
                                                    req.client_id, now)]
                         /\ UNCHANGED <<ttl, TEAM_SESSIONS, VERSUS_SESSIONS,
                                        TEAM_LOCK, VERSUS_LOCK, now, resp>>

\* Line 549, session["next_seq"] += 1.
add_versus_guess_549(t) ==
    /\ At(t, "VERSUS_LOCK", 549)
    /\ VERSUS_SESSIONS' = [VERSUS_SESSIONS EXCEPT
                               ![pending[t].request.code].next_seq = @ + 1]
    /\ pending' = [pending EXCEPT ![t].at = 550]
    /\ UNCHANGED <<ttl, TEAM_SESSIONS, TEAM_LOCK, VERSUS_LOCK, now, resp>>

\* Line 550, the event is appended to the player's ledger.
add_versus_guess_550(t) ==
    /\ At(t, "VERSUS_LOCK", 550)
    /\ LET req == pending[t].request
       IN  VERSUS_SESSIONS' =
               [VERSUS_SESSIONS EXCEPT
                    ![req.code].guesses_by_player =
                        Put(@, req.client_id,
                            Append(Get(@, req.client_id, <<>>),
                                   pending[t].local))]
    /\ pending' = [pending EXCEPT ![t].at = 551]
    /\ UNCHANGED <<ttl, TEAM_SESSIONS, TEAM_LOCK, VERSUS_LOCK, now, resp>>

\* Line 551, the event is indexed under its key in the player's index.
add_versus_guess_551(t) ==
    /\ At(t, "VERSUS_LOCK", 551)
    /\ LET req == pending[t].request
       IN  VERSUS_SESSIONS' =
               [VERSUS_SESSIONS EXCEPT
                    ![req.code].guess_index_by_player =
                        Put(@, req.client_id,
                            Put(Get(@, req.client_id, EmptyStore),
                                req.normalized_word, pending[t].local))]
    /\ pending' = [pending EXCEPT ![t].at = 552]
    /\ UNCHANGED <<ttl, TEAM_SESSIONS, TEAM_LOCK, VERSUS_LOCK, now, resp>>

\* Line 552, the last activity is refreshed.
add_versus_guess_552(t) ==
    /\ At(t, "VERSUS_LOCK", 552)
    /\ VERSUS_SESSIONS' = [VERSUS_SESSIONS EXCEPT
                               ![pending[t].request.code].updated_at = now]
    /\ pending' = [pending EXCEPT ![t].at = 553]
    /\ UNCHANGED <<ttl, TEAM_SESSIONS, TEAM_LOCK, VERSUS_LOCK, now, resp>>

\* Line 553, the return.
add_versus_guess_553(t) ==
    /\ At(t, "VERSUS_LOCK", 553)
    /\ VersusLeave(t, Ok([accepted |-> TRUE, event |-> pending[t].local]))

(***************************************************************************)
(* The similarity lookup.  get_similar takes no lock and touches no        *)
(* session: it runs in one step.  The embedding model is an opaque         *)
(* collaborator, stood for by a vocabulary of tokens and the neighbours of *)
(* each; a token outside the vocabulary raises KeyError.  The model file   *)
(* is taken to exist.                                                      *)
(***************************************************************************)
Min(a, b) == IF a <= b THEN a ELSE b

\* kv.most_similar(token, topn=topn) for a token of the vocabulary.
most_similar(kv, token, topn) ==
    SubSeq(kv[token], 1, Min(topn, Len(kv[token])))

\* Lines 635-650.  `normalized` is both the token handed to the model (line
\* 645) and a field of the answer (line 650).
get_similar(t, kv, word, topn) ==
    /\ Idle(t)
    /\ IF strip(word) = <<>>
       THEN Reject(t, "get_similar", 400, "Provide a non-empty word")
       ELSE LET normalized == normalize_word(word)
                n == Max(1, Min(IF topn = 0 THEN 1 ELSE topn, MAX_TOPN))
                raw == IF normalized \in DOMAIN kv
                       THEN most_similar(kv, normalized, n) ELSE <<>>
            IN  /\ resp' = [resp EXCEPT
                                ![t] = Answer([op |-> "get_similar",
                                               word |-> word, topn |-> topn],
                                              Ok([origin |-> "word2bezbar",
                                                  normalized |-> normalized,
                                                  results |-> raw]))]
                /\ UNCHANGED <<ttl, TEAM_SESSIONS, VERSUS_SESSIONS, TEAM_LOCK,
                               VERSUS_LOCK, now, pending>>

(***************************************************************************)
(* The clock and the specifications                                        *)
(***************************************************************************)
Tick(steps) ==
    /\ \E d \in steps : now + d <= MaxTime /\ now' = now + d
    /\ UNCHANGED <<ttl, TEAM_SESSIONS, VERSUS_SESSIONS, TEAM_LOCK, VERSUS_LOCK, pending, resp>>

\* The clock moves on to one of the given readings.
Advance(readings) ==
    /\ \E r \in readings : r > now /\ now' = r
    /\ UNCHANGED <<ttl, TEAM_SESSIONS, VERSUS_SESSIONS, TEAM_LOCK, VERSUS_LOCK, pending, resp>>

Init ==
    /\ TEAM_SESSIONS = EmptyStore
    /\ VERSUS_SESSIONS = EmptyStore
    /\ TEAM_LOCK = Unlocked
    /\ VERSUS_LOCK = Unlocked
    /\ ttl = TEAM_SESSION_TTL_SECONDS
    /\ now = 0
    /\ pending = [t \in Threads |-> NoReq]
    /\ resp = [t \in Threads |-> NoResp]

\* The process started with TEAM_SESSION_TTL_SECONDS set in its environment
\* to one of these values, or left at its default.
TTLValues == {-1, 0, TEAM_SESSION_TTL_SECONDS}

InitAnyTTL ==
    /\ TEAM_SESSIONS = EmptyStore
    /\ VERSUS_SESSIONS = EmptyStore
    /\ TEAM_LOCK = Unlocked
    /\ VERSUS_LOCK = Unlocked
    /\ ttl \in TTLValues
    /\ now = 0
    /\ pending = [t \in Threads |-> NoReq]
    /\ resp = [t \in Threads |-> NoResp]

TeamRecv(t, I) ==
    \/ \E c \in I.hosts, m \in I.mins, s \in I.songs :
           recv_create_team_session(t, c, m, s)
    \/ \E k \in I.codes, c \in I.clients : recv_join_team_session(t, k, c)
    \/ \E k \in I.codes, c \in I.clients : recv_get_team_session_state(t, k, c)
    \/ \E k \in I.codes, c \in I.clients, w \in I.words :
           recv_add_team_guess(t, k, c, w)
    \/ \E k \in I.codes, c \in I.clients, w \in I.titles :
           recv_add_team_title_guess(t, k, c, w)

TeamRun(t, I) ==
    \/ create_team_session(t, I.pool)
    \/ join_team_session(t)
    \/ get_team_session_state(t)
    \/ add_team_guess(t)
    \/ add_team_title_guess(t)

VersusRecv(t, I) ==
    \/ \E c \in I.hosts, m \in I.mins, s \in I.songs :
           recv_create_versus_session(t, c, m, s)
    \/ \E k \in I.codes, c \in I.clients : recv_join_versus_session(t, k, c)
    \/ \E k \in I.codes, c \in I.clients : recv_get_versus_session_state(t, k, c)
    \/ \E k \in I.codes, c \in I.clients, w \in I.words :
           recv_add_versus_guess(t, k, c, w)
    \/ \E k \in I.codes, c \in I.clients, w \in I.titles :
           recv_add_versus_title_guess(t, k, c, w)

VersusRun(t, I) ==
    \/ create_versus_session(t, I.pool)
    \/ join_versus_session(t)
    \/ get_versus_session_state(t)
    \/ add_versus_guess(t)
    \/ add_versus_title_guess(t)

\* One worker thread, the clock running.
TeamNext ==
    Tick(InputsTeam.steps) \/ TeamRecv("t1", InputsTeam) \/ TeamRun("t1", InputsTeam)

VersusNext ==
    \/ Tick(InputsVersus.steps)
    \/ VersusRecv("t1", InputsVersus)
    \/ VersusRun("t1", InputsVersus)

SpecTeam == Init /\ [][TeamNext]_vars

SpecVersus == Init /\ [][VersusNext]_vars

\* Both registries, one worker thread, the clock running.
Next ==
    \/ Tick(InputsBoth.steps)
    \/ TeamRecv("t1", InputsBoth) \/ TeamRun("t1", InputsBoth)
    \/ VersusRecv("t1", InputsBoth) \/ VersusRun("t1", InputsBoth)

Spec == Init /\ [][Next]_vars

\* Both registries, one worker thread, the clock running: creating, joining
\* and guessing.
GuessNext ==
    \/ Tick(InputsGuess.steps)
    \/ \E c \in InputsGuess.hosts, m \in InputsGuess.mins, s \in InputsGuess.songs :
           recv_create_team_session("t1", c, m, s)
    \/ \E c \in InputsGuess.hosts, m \in InputsGuess.mins, s \in InputsGuess.songs :
           recv_create_versus_session("t1", c, m, s)
    \/ \E k \in InputsGuess.codes, c \in InputsGuess.clients :
           recv_join_team_session("t1", k, c)
    \/ \E k \in InputsGuess.codes, c \in InputsGuess.clients :
           recv_join_versus_session("t1", k, c)
    \/ \E k \in InputsGuess.codes, c \in InputsGuess.clients, w \in InputsGuess.words :
           recv_add_team_guess("t1", k, c, w)
    \/ \E k \in InputsGuess.codes, c \in InputsGuess.clients, w \in InputsGuess.words :
           recv_add_versus_guess("t1", k, c, w)
    \/ create_team_session("t1", InputsGuess.pool)
    \/ create_versus_session("t1", InputsGuess.pool)
    \/ join_team_session("t1")
    \/ join_versus_session("t1")
    \/ add_team_guess("t1")
    \/ add_versus_guess("t1")

SpecGuess == Init /\ [][GuessNext]_vars

\* Two worker threads racing for the lock, the clock stopped.
TeamGuessRaceNext ==
    \E t \in Threads :
        \/ \E c \in InputsRace.hosts, m \in InputsRace.mins, s \in InputsRace.songs :
               recv_create_team_session(t, c, m, s)
        \/ \E k \in InputsRace.codes, c \in InputsRace.clients :
               recv_join_team_session(t, k, c)
        \/ \E k \in InputsRace.codes, c \in InputsRace.clients, w \in InputsRace.words :
               recv_add_team_guess(t, k, c, w)
        \/ create_team_session(t, InputsRace.pool)
        \/ join_team_session(t)
        \/ add_team_guess(t)

SpecTeamRace == Init /\ [][TeamGuessRaceNext]_vars

VersusTitleRaceNext ==
    \E t \in Threads :
        \/ \E c \in InputsRace.hosts, m \in InputsRace.mins, s \in InputsRace.songs :
               recv_create_versus_session(t, c, m, s)
        \/ \E k \in InputsRace.codes, c \in InputsRace.clients :
               recv_join_versus_session(t, k, c)
        \/ \E k \in InputsRace.codes, c \in InputsRace.clients, w \in InputsRace.titles :
               recv_add_versus_title_guess(t, k, c, w)
        \/ create_versus_session(t, InputsRace.pool)
        \/ join_versus_session(t)
        \/ add_versus_title_guess(t)

SpecVersusRace == Init /\ [][VersusTitleRaceNext]_vars

JoinRaceNext ==
    \E t \in Threads :
        \/ \E c \in InputsRace.hosts, m \in InputsRace.mins, s \in InputsRace.songs :
               recv_create_team_session(t, c, m, s)
        \/ \E c \in InputsRace.hosts, m \in InputsRace.mins, s \in InputsRace.songs :
               recv_create_versus_session(t, c, m, s)
        \/ \E k \in InputsRace.codes, c \in InputsRace.clients :
               recv_join_team_session(t, k, c)
        \/ \E k \in InputsRace.codes, c \in InputsRace.clients :
               recv_join_versus_session(t, k, c)
        \/ create_team_session(t, InputsRace.pool)
        \/ create_versus_session(t, InputsRace.pool)
        \/ join_team_session(t)
        \/ join_versus_session(t)

SpecJoinRace == Init /\ [][JoinRaceNext]_vars

\* One worker thread, the clock advancing in steps that reach the eviction
\* deadline exactly and pass it by one second.
ExpiryRecv(t, I) ==
    \/ \E c \in I.hosts, m \in I.mins, s \in I.songs :
           recv_create_team_session(t, c, m, s)
    \/ \E c \in I.hosts, m \in I.mins, s \in I.songs :
           recv_create_versus_session(t, c, m, s)
    \/ \E k \in I.codes, c \in I.joiners : recv_join_team_session(t, k, c)
    \/ \E k \in I.codes, c \in I.joiners : recv_join_versus_session(t, k, c)
    \/ \E k \in I.codes, c \in I.clients : recv_get_team_session_state(t, k, c)
    \/ \E k \in I.codes, c \in I.clients : recv_get_versus_session_state(t, k, c)
    \/ \E k \in I.codes, c \in I.clients, w \in I.words :
           recv_add_team_guess(t, k, c, w)
    \/ \E k \in I.codes, c \in I.clients, w \in I.words :
           recv_add_versus_guess(t, k, c, w)
    \/ \E k \in I.codes, c \in I.clients, w \in I.titles :
           recv_add_team_title_guess(t, k, c, w)
    \/ \E k \in I.codes, c \in I.clients, w \in I.titles :
           recv_add_versus_title_guess(t, k, c, w)

ExpiryNext ==
    \/ Advance(InputsExpiry.readings)
    \/ ExpiryRecv("t1", InputsExpiry)
    \/ TeamRun("t1", InputsExpiry)
    \/ VersusRun("t1", InputsExpiry)

SpecExpiry == Init /\ [][ExpiryNext]_vars

\* The same handlers, the TTL positive, zero or negative.
EvictionNext ==
    \/ Advance(InputsEviction.readings)
    \/ ExpiryRecv("t1", InputsEviction)
    \/ TeamRun("t1", InputsEviction)
    \/ VersusRun("t1", InputsEviction)

SpecEviction == InitAnyTTL /\ [][EvictionNext]_vars

\* Both registries, one worker thread: creating, joining, guessing and
\* guessing the title.
RejoinNext ==
    \/ Advance(InputsRejoin.readings)
    \/ \E c \in InputsRejoin.hosts, m \in InputsRejoin.mins, s \in InputsRejoin.songs :
           recv_create_team_session("t1", c, m, s)
    \/ \E c \in InputsRejoin.hosts, m \in InputsRejoin.mins, s \in InputsRejoin.songs :
           recv_create_versus_session("t1", c, m, s)
    \/ \E k \in InputsRejoin.codes, c \in InputsRejoin.joiners :
           recv_join_team_session("t1", k, c)
    \/ \E k \in InputsRejoin.codes, c \in InputsRejoin.joiners :
           recv_join_versus_session("t1", k, c)
    \/ \E k \in InputsRejoin.codes, c \in InputsRejoin.clients,
          w \in InputsRejoin.words :
           recv_add_team_guess("t1", k, c, w)
    \/ \E k \in InputsRejoin.codes, c \in InputsRejoin.clients,
          w \in InputsRejoin.words :
           recv_add_versus_guess("t1", k, c, w)
    \/ \E k \in InputsRejoin.codes, c \in InputsRejoin.clients,
          w \in InputsRejoin.titles :
           recv_add_team_title_guess("t1", k, c, w)
    \/ \E k \in InputsRejoin.codes, c \in InputsRejoin.clients,
          w \in InputsRejoin.titles :
           recv_add_versus_title_guess("t1", k, c, w)
    \/ create_team_session("t1", InputsRejoin.pool)
    \/ create_versus_session("t1", InputsRejoin.pool)
    \/ join_team_session("t1")
    \/ join_versus_session("t1")
    \/ add_team_guess("t1")
    \/ add_versus_guess("t1")
    \/ add_team_title_guess("t1")
    \/ add_versus_title_guess("t1")

SpecRejoin == Init /\ [][RejoinNext]_vars

\* The team registry, one worker thread, the clock stopped.
TitleNext == TeamRecv("t1", InputsTitle) \/ TeamRun("t1", InputsTitle)

SpecTitle == Init /\ [][TitleNext]_vars

\* The team registry, one worker thread, the clock stopped: the requests of
\* the end-to-end scenario in any order.
ScenarioNext == TeamRecv("t1", InputsScenario) \/ TeamRun("t1", InputsScenario)

SpecScenario == Init /\ [][ScenarioNext]_vars

\* Both registries, one worker thread: creating, joining and guessing the
\* title.
TitleMatchNext ==
    \/ Advance(InputsTitleMatch.readings)
    \/ \E c \in InputsTitleMatch.hosts, m \in InputsTitleMatch.mins,
          s \in InputsTitleMatch.songs :
           recv_create_team_session("t1", c, m, s)
    \/ \E c \in InputsTitleMatch.hosts, m \in InputsTitleMatch.mins,
          s \in InputsTitleMatch.songs :
           recv_create_versus_session("t1", c, m, s)
    \/ \E k \in InputsTitleMatch.codes, c \in InputsTitleMatch.joiners :
           recv_join_team_session("t1", k, c)
    \/ \E k \in InputsTitleMatch.codes, c \in InputsTitleMatch.joiners :
           recv_join_versus_session("t1", k, c)
    \/ \E k \in InputsTitleMatch.codes, c \in InputsTitleMatch.clients :
           recv_get_team_session_state("t1", k, c)
    \/ \E k \in InputsTitleMatch.codes, c \in InputsTitleMatch.clients,
          w \in InputsTitleMatch.titles :
           recv_add_team_title_guess("t1", k, c, w)
    \/ \E k \in InputsTitleMatch.codes, c \in InputsTitleMatch.clients,
          w \in InputsTitleMatch.titles :
           recv_add_versus_title_guess("t1", k, c, w)
    \/ create_team_session("t1", InputsTitleMatch.pool)
    \/ create_versus_session("t1", InputsTitleMatch.pool)
    \/ join_team_session("t1")
    \/ join_versus_session("t1")
    \/ get_team_session_state("t1")
    \/ add_team_title_guess("t1")
    \/ add_versus_title_guess("t1")

SpecTitleMatch == Init /\ [][TitleMatchNext]_vars

\* Both registries, one worker thread: creating, joining, guessing and
\* reading the state.
LedgerNext ==
    \/ \E c \in InputsLedger.hosts, m \in InputsLedger.mins,
          s \in InputsLedger.songs :
           recv_create_team_session("t1", c, m, s)
    \/ \E c \in InputsLedger.hosts, m \in InputsLedger.mins,
          s \in InputsLedger.songs :
           recv_create_versus_session("t1", c, m, s)
    \/ \E k \in InputsLedger.codes, c \in InputsLedger.joiners :
           recv_join_team_session("t1", k, c)
    \/ \E k \in InputsLedger.codes, c \in InputsLedger.joiners :
           recv_join_versus_session("t1", k, c)
    \/ \E k \in InputsLedger.codes, c \in InputsLedger.clients :
           recv_get_team_session_state("t1", k, c)
    \/ \E k \in InputsLedger.codes, c \in InputsLedger.clients :
           recv_get_versus_session_state("t1", k, c)
    \/ \E k \in InputsLedger.codes, c \in InputsLedger.clients,
          w \in InputsLedger.words :
           recv_add_team_guess("t1", k, c, w)
    \/ \E k \in InputsLedger.codes, c \in InputsLedger.clients,
          w \in InputsLedger.words :
           recv_add_versus_guess("t1", k, c, w)
    \/ create_team_session("t1", InputsLedger.pool)
    \/ create_versus_session("t1", InputsLedger.pool)
    \/ join_team_session("t1")
    \/ join_versus_session("t1")
    \/ get_team_session_state("t1")
    \/ get_versus_session_state("t1")
    \/ add_team_guess("t1")
    \/ add_versus_guess("t1")

SpecLedger == Init /\ [][LedgerNext]_vars

\* Both registries, one worker thread, the clock running, all handlers.
SongNext ==
    \/ Tick(InputsSong.steps)
    \/ TeamRecv("t1", InputsSong) \/ TeamRun("t1", InputsSong)
    \/ VersusRecv("t1", InputsSong) \/ VersusRun("t1", InputsSong)

SpecSong == Init /\ [][SongNext]_vars

\* One thread posts team guesses of every text; no session exists, so each
\* admitted guess is answered by the handler's lookup.
NormaliseNext ==
    \/ \E w \in Texts : recv_add_team_guess("t1", K1Typed, A, w)
    \/ add_team_guess("t1")

SpecNormalise == Init /\ [][NormaliseNext]_vars

\* The requests that reach the two threads.
FairRecv(t) ==
    \/ \E c \in InputsFair.hosts, m \in InputsFair.mins,
          s \in InputsFair.songs :
           recv_create_team_session(t, c, m, s)
    \/ \E c \in InputsFair.hosts, m \in InputsFair.mins,
          s \in InputsFair.songs :
           recv_create_versus_session(t, c, m, s)
    \/ \E k \in InputsFair.codes, c \in InputsFair.clients,
          w \in InputsFair.words :
           recv_add_team_guess(t, k, c, w)
    \/ \E k \in InputsFair.codes, c \in InputsFair.clients,
          w \in InputsFair.words :
           recv_add_versus_guess(t, k, c, w)

\* The steps of thread t that need a registry lock to be unlocked: the
\* acquisitions of the two guess handlers, and the create handlers, which
\* run their block in one step.
FairEnter(t) ==
    \/ add_team_guess_359(t)
    \/ add_versus_guess_527(t)
    \/ create_team_session(t, InputsFair.pool)
    \/ create_versus_session(t, InputsFair.pool)

\* The steps of thread t inside a block.
FairInside(t) ==
    \/ add_team_guess_360(t)
    \/ add_team_guess_361(t)
    \/ add_team_guess_378(t)
    \/ add_team_guess_379(t)
    \/ add_team_guess_380(t)
    \/ add_team_guess_381(t)
    \/ add_team_guess_382(t)
    \/ add_versus_guess_528(t)
    \/ add_versus_guess_529(t)
    \/ add_versus_guess_549(t)
    \/ add_versus_guess_550(t)
    \/ add_versus_guess_551(t)
    \/ add_versus_guess_552(t)
    \/ add_versus_guess_553(t)

\* Two worker threads, the blocks of add_team_guess and add_versus_guess run
\* statement by statement, the create handlers in one step each.
FairNext == \E t \in Threads : FairRecv(t) \/ FairEnter(t) \/ FairInside(t)

\* A running thread is not stopped for ever, and a thread waiting for a lock
\* that is unlocked again and again gets it: fair lock scheduling.
SpecFair ==
    /\ Init
    /\ [][FairNext]_vars
    /\ \A t \in Threads : WF_vars(FairInside(t)) /\ SF_vars(FairEnter(t))

\* As SpecFair, but a waiting thread is served only if the lock stays
\* unlocked: the lock may go to the other thread every time.
SpecFairWeak ==
    /\ Init
    /\ [][FairNext]_vars
    /\ \A t \in Threads : WF_vars(FairInside(t)) /\ WF_vars(FairEnter(t))

\* One thread, the team registry and the similarity lookup.
SimilarNext ==
    \/ \E c \in InputsSimilar.hosts, m \in InputsSimilar.mins,
          s \in InputsSimilar.songs :
           recv_create_team_session("t1", c, m, s)
    \/ \E k \in InputsSimilar.codes, c \in InputsSimilar.clients,
          w \in InputsSimilar.words :
           recv_add_team_guess("t1", k, c, w)
    \/ create_team_session("t1", InputsSimilar.pool)
    \/ add_team_guess("t1")
    \/ \E w \in InputsSimilar.words, n \in InputsSimilar.topns :
           get_similar("t1", InputsSimilar.kv, w, n)

SpecSimilar == Init /\ [][SimilarNext]_vars

\* One thread, both registries: create, join and title guess.
EmptyTitleNext ==
    \/ Advance(InputsEmptyTitle.readings)
    \/ \E c \in InputsEmptyTitle.hosts, m \in InputsEmptyTitle.mins,
          s \in InputsEmptyTitle.songs :
           recv_create_team_session("t1", c, m, s)
    \/ \E c \in InputsEmptyTitle.hosts, m \in InputsEmptyTitle.mins,
          s \in InputsEmptyTitle.songs :
           recv_create_versus_session("t1", c, m, s)
    \/ \E k \in InputsEmptyTitle.codes, c \in InputsEmptyTitle.joiners :
           recv_join_team_session("t1", k, c)
    \/ \E k \in InputsEmptyTitle.codes, c \in InputsEmptyTitle.joiners :
           recv_join_versus_session("t1", k, c)
    \/ \E k \in InputsEmptyTitle.codes, c \in InputsEmptyTitle.clients,
          w \in InputsEmptyTitle.titles :
           recv_add_team_title_guess("t1", k, c, w)
    \/ \E k \in InputsEmptyTitle.codes, c \in InputsEmptyTitle.clients,
          w \in InputsEmptyTitle.titles :
           recv_add_versus_title_guess("t1", k, c, w)
    \/ create_team_session("t1", InputsEmptyTitle.pool)
    \/ create_versus_session("t1", InputsEmptyTitle.pool)
    \/ join_team_session("t1")
    \/ join_versus_session("t1")
    \/ add_team_title_guess("t1")
    \/ add_versus_title_guess("t1")

SpecEmptyTitle == Init /\ [][EmptyTitleNext]_vars

\* Both registries, one worker thread, three clients.
MembersNext ==
    \/ TeamRecv("t1", InputsMembers) \/ TeamRun("t1", InputsMembers)
    \/ VersusRecv("t1", InputsMembers) \/ VersusRun("t1", InputsMembers)

SpecMembers == Init /\ [][MembersNext]_vars

\* One thread, both registries: create, guess and versus title guess.
PrecedenceNext ==
    \/ Tick(InputsPrecedence.steps)
    \/ \E c \in InputsPrecedence.hosts, m \in InputsPrecedence.mins,
          s \in InputsPrecedence.songs :
           recv_create_team_session("t1", c, m, s)
    \/ \E c \in InputsPrecedence.hosts, m \in InputsPrecedence.mins,
          s \in InputsPrecedence.songs :
           recv_create_versus_session("t1", c, m, s)
    \/ \E k \in InputsPrecedence.codes, c \in InputsPrecedence.clients,
          w \in InputsPrecedence.words :
           recv_add_team_guess("t1", k, c, w)
    \/ \E k \in InputsPrecedence.codes, c \in InputsPrecedence.clients,
          w \in InputsPrecedence.words :
           recv_add_versus_guess("t1", k, c, w)
    \/ \E k \in InputsPrecedence.codes, c \in InputsPrecedence.clients,
          w \in InputsPrecedence.titles :
           recv_add_versus_title_guess("t1", k, c, w)
    \/ create_team_session("t1", InputsPrecedence.pool)
    \/ create_versus_session("t1", InputsPrecedence.pool)
    \/ add_team_guess("t1")
    \/ add_versus_guess("t1")
    \/ add_versus_title_guess("t1")

SpecPrecedence == Init /\ [][PrecedenceNext]_vars

\* Two worker threads guessing in both registries, the clock stopped.
GuessRaceNext ==
    \E t \in Threads :
        \/ \E c \in InputsGuessRace.hosts, m \in InputsGuessRace.mins,
              s \in InputsGuessRace.songs :
               recv_create_team_session(t, c, m, s)
        \/ \E c \in InputsGuessRace.hosts, m \in InputsGuessRace.mins,
              s \in InputsGuessRace.songs :
               recv_create_versus_session(t, c, m, s)
        \/ \E k \in InputsGuessRace.codes, c \in InputsGuessRace.joiners :
               recv_join_versus_session(t, k, c)
        \/ \E k \in InputsGuessRace.codes, c \in InputsGuessRace.hosts,
              w \in InputsGuessRace.words :
               recv_add_team_guess(t, k, c, w)
        \/ \E k \in InputsGuessRace.codes, c \in InputsGuessRace.clients,
              w \in InputsGuessRace.versus_words :
               recv_add_versus_guess(t, k, c, w)
        \/ create_team_session(t, InputsGuessRace.pool)
        \/ create_versus_session(t, InputsGuessRace.pool)
        \/ join_versus_session(t)
        \/ add_team_guess(t)
        \/ add_versus_guess(t)

SpecGuessRace == Init /\ [][GuessRaceNext]_vars

\* Two worker threads, the blocks of add_team_guess, get_team_session_state
\* and add_versus_title_guess run statement by statement, the other handlers
\* in one step each.
LockNext ==
    \/ Advance(InputsLock.readings)
    \/ \E t \in Threads :
        \/ \E c \in InputsLock.hosts, m \in InputsLock.mins,
              s \in InputsLock.songs :
               recv_create_team_session(t, c, m, s)
        \/ \E c \in InputsLock.hosts, m \in InputsLock.mins,
              s \in InputsLock.songs :
               recv_create_versus_session(t, c, m, s)
        \/ \E k \in InputsLock.codes, c \in InputsLock.joiners :
               recv_join_versus_session(t, k, c)
        \/ \E k \in InputsLock.codes, c \in InputsLock.hosts,
              w \in InputsLock.words :
               recv_add_team_guess(t, k, c, w)
        \/ \E k \in InputsLock.codes, c \in InputsLock.hosts :
               recv_get_team_session_state(t, k, c)
        \/ \E k \in InputsLock.codes, c \in InputsLock.clients,
              w \in InputsLock.titles :
               recv_add_versus_title_guess(t, k, c, w)
        \/ create_team_session(t, InputsLock.pool)
        \/ create_versus_session(t, InputsLock.pool)
        \/ join_versus_session(t)
        \/ add_team_guess_359(t)
        \/ add_team_guess_360(t)
        \/ add_team_guess_361(t)
        \/ add_team_guess_378(t)
        \/ add_team_guess_379(t)
        \/ add_team_guess_380(t)
        \/ add_team_guess_381(t)
        \/ add_team_guess_382(t)
        \/ get_team_session_state_330(t)
        \/ get_team_session_state_331(t)
        \/ get_team_session_state_332(t)
        \/ get_team_session_state_340(t)
        \/ add_versus_title_guess_568(t)
        \/ add_versus_title_guess_569(t)
        \/ add_versus_title_guess_570(t)
        \/ add_versus_title_guess_588(t)
        \/ add_versus_title_guess_589(t)
        \/ add_versus_title_guess_591(t)

SpecLock == Init /\ [][LockNext]_vars

\* Two worker threads creating sessions in both registries, the clock running.
CreateRaceNext ==
    \/ Tick(InputsCreate.steps)
    \/ \E t \in Threads :
           \/ \E c \in InputsCreate.hosts, m \in InputsCreate.mins,
                 s \in InputsCreate.songs :
                  recv_create_team_session(t, c, m, s)
           \/ \E c \in InputsCreate.hosts, m \in InputsCreate.mins,
                 s \in InputsCreate.songs :
                  recv_create_versus_session(t, c, m, s)
           \/ create_team_session(t, InputsCreate.pool)
           \/ create_versus_session(t, InputsCreate.pool)

SpecCreateRace == Init /\ [][CreateRaceNext]_vars

(***************************************************************************)
(* Vocabulary of the properties                                            *)
(***************************************************************************)
\* Thread t leaves the block of handler op in this step.
Ran(t, op) == pending[t].op = op /\ pending'[t].op = "idle"

\* The session under `code` before and after the step is the same session
\* (a code freed by eviction can be drawn again by a later create).
SameTeamSession(code) ==
    /\ code \in DOMAIN TEAM_SESSIONS /\ code \in DOMAIN TEAM_SESSIONS'
    /\ TEAM_SESSIONS'[code].created_at = TEAM_SESSIONS[code].created_at

SameVersusSession(code) ==
    /\ code \in DOMAIN VERSUS_SESSIONS /\ code \in DOMAIN VERSUS_SESSIONS'
    /\ VERSUS_SESSIONS'[code].created_at = VERSUS_SESSIONS[code].created_at

\* The session under `code` is in the registry and not idle past the TTL.
Live(store, code) ==
    /\ code \in DOMAIN store
    /\ ~(ttl > 0 /\ now - store[code].updated_at > ttl)

\* The handlers that address a session by its code.
TeamCodeOps == {"join_team_session", "get_team_session_state",
                "add_team_guess", "add_team_title_guess"}

VersusCodeOps == {"join_versus_session", "get_versus_session_state",
                  "add_versus_guess", "add_versus_title_guess"}

\* The session under `code` has been idle for more than one TTL.
Expired(store, code) ==
    /\ ttl > 0
    /\ code \in DOMAIN store
    /\ now - store[code].updated_at > ttl

\* Thread t's call ends in an error in this step: rejected before the lock,
\* or raised inside the block.
Failed(t) ==
    /\ resp'[t].status \notin {0, 200}
    /\ pending[t].op # "idle" \/ resp'[t] # resp[t]

\* The events a session holds: of the shared ledger of a team session, of
\* the ledgers of all players of a versus session.
TeamEvents(session) == Range(session.guesses)

VersusEvents(session) ==
    UNION {Range(session.guesses_by_player[pid]) :
               pid \in DOMAIN session.guesses_by_player}

\* Positions of the ledger whose word has the key.
WithKey(ledger, key) ==
    {i \in 1..Len(ledger) : _normalize_guess_value(ledger[i].word) = key}

\* The event recorded by the first guess with the key.
FirstWithKey(ledger, key) ==
    ledger[CHOOSE i \in WithKey(ledger, key) : \A j \in WithKey(ledger, key) : i <= j]

Seqs(ledger) == [i \in 1..Len(ledger) |-> ledger[i].seq]

\* A 200 answer to a title guess in a versus session, judged correct.
CorrectVersusTitleAnswer(r) ==
    /\ r.status = 200
    /\ r.request.op = "add_versus_title_guess"
    /\ r.body.correct

\* Text a occurs in text b without being all of it.
ProperInfix(a, b) ==
    /\ a # b
    /\ \E i \in 1..(Len(b) + 1) :
           i + Len(a) - 1 <= Len(b) /\ SubSeq(b, i, i + Len(a) - 1) = a

\* Ledger a is the beginning of ledger b.
Prefix(a, b) == Len(a) <= Len(b) /\ SubSeq(b, 1, Len(a)) = a

\* A 200 answer to a guess in the given mode.
GuessAnswer(r, op) == r.status = 200 /\ r.request.op = op

(***************************************************************************)
(* C1. Two members of a versus session both answer the title correctly,    *)
(* their calls racing for the lock: exactly one of the two is told         *)
(* you_won, and is the stored winner; the other is told finished and       *)
(* opponent_won, not you_won.                                              *)
(***************************************************************************)
\* The answers the two threads hold, after any step.
C1_Answers ==
    \A t \in Threads, u \in Threads :
        (/\ t # u
         /\ CorrectVersusTitleAnswer(resp[t])
         /\ CorrectVersusTitleAnswer(resp[u])
         /\ resp[t].request.code = resp[u].request.code
         /\ resp[t].request.client_id # resp[u].request.client_id)
        => LET vt == resp[t].body.state
               vu == resp[u].body.state
           IN  /\ vt.you_won # vu.you_won
               /\ vt.you_won =>
                      /\ vu.finished /\ vu.opponent_won /\ ~vu.you_won
                      /\ vu.winner_id = resp[t].request.client_id
                      /\ resp[t].request.code \in DOMAIN VERSUS_SESSIONS
                      /\ VERSUS_SESSIONS[resp[t].request.code].winner_id
                             = resp[t].request.client_id

\* The call that runs the block while the winner is empty takes the win.
C1_FirstInWins ==
    \A t \in Threads :
        (/\ Ran(t, "add_versus_title_guess")
         /\ CorrectVersusTitleAnswer(resp'[t]))
        => LET req == pending[t]
               before == VERSUS_SESSIONS[req.code].winner_id
               view == resp'[t].body.state
           IN  /\ view.finished
               /\ view.winner_id = VERSUS_SESSIONS'[req.code].winner_id
               /\ IF before = <<>>
                  THEN view.winner_id = req.client_id /\ view.you_won
                  ELSE view.winner_id = before
                       /\ view.opponent_won = (before # req.client_id)

\* C1: of two members' correct title guesses exactly one wins, the one that
\* runs the block first, and the other is told finished and opponent_won.
C1_OneWinnerOfTwo == [][C1_Answers' /\ C1_FirstInWins]_vars

\* Both calls have returned: the guest's ran first.
C1_Witness ==
    /\ CorrectVersusTitleAnswer(resp["t1"])
    /\ CorrectVersusTitleAnswer(resp["t2"])
    /\ resp["t1"].request.client_id = B
    /\ resp["t2"].request.client_id = A
    /\ resp["t1"].body.state.you_won
    /\ resp["t2"].body.state.finished
    /\ resp["t2"].body.state.opponent_won

(***************************************************************************)
(* C2. Once the winner of a versus session is set, no step changes it      *)
(* while the session stays in the registry.                                *)
(***************************************************************************)
C2_WinnerNeverChanges ==
    [][\A code \in DOMAIN VERSUS_SESSIONS :
           (SameVersusSession(code) /\ VERSUS_SESSIONS[code].winner_id # <<>>)
           => VERSUS_SESSIONS'[code].winner_id = VERSUS_SESSIONS[code].winner_id]_vars

\* The other member has answered correctly after the winner was set.
C2_Witness ==
    /\ CorrectVersusTitleAnswer(resp["t1"])
    /\ resp["t1"].request.client_id = A
    /\ resp["t1"].body.state.opponent_won
    /\ K1 \in DOMAIN VERSUS_SESSIONS
    /\ VERSUS_SESSIONS[K1].winner_id = B

(***************************************************************************)
(* C3. A team guess by a member whose key is the key of an event already   *)
(* in the ledger is answered accepted = false with the event of the first  *)
(* guess that had the key; the ledger and the counter stay as they were.   *)
(***************************************************************************)
C3_TeamDedup ==
    [][\A t \in Threads :
           LET req == pending[t]
           IN  (/\ Ran(t, "add_team_guess")
                /\ Live(TEAM_SESSIONS, req.code)
                /\ req.client_id \in PlayerIds(TEAM_SESSIONS[req.code])
                /\ WithKey(TEAM_SESSIONS[req.code].guesses,
                           _normalize_guess_value(req.word)) # {})
               => /\ resp'[t].status = 200
                  /\ resp'[t].body.accepted = FALSE
                  /\ resp'[t].body.event
                         = FirstWithKey(TEAM_SESSIONS[req.code].guesses,
                                        _normalize_guess_value(req.word))
                  /\ SameTeamSession(req.code)
                  /\ TEAM_SESSIONS'[req.code].guesses
                         = TEAM_SESSIONS[req.code].guesses
                  /\ TEAM_SESSIONS'[req.code].next_seq
                         = TEAM_SESSIONS[req.code].next_seq]_vars

\* The other member, with another spelling, got the first event back.
C3_Witness ==
    /\ GuessAnswer(resp["t1"], "add_team_guess")
    /\ resp["t1"].body.accepted = FALSE
    /\ resp["t1"].body.event.client_id # resp["t1"].request.client_id
    /\ resp["t1"].body.event.word # resp["t1"].request.word
    /\ resp["t1"].body.event.seq = 1

(***************************************************************************)
(* C4. Both members of a team session have a guess with the same key in    *)
(* flight and the key is not recorded: the call that runs the block first  *)
(* is answered accepted = true and its event is the one event the ledger   *)
(* gains; the call that runs after it is answered accepted = false with    *)
(* that same event, and the ledger stays as it was.                        *)
(***************************************************************************)
C4_TeamGuessRace ==
    [][\A t \in Threads, u \in Threads :
           LET rt == pending[t]
               ru == pending[u]
               first == resp[u]
           IN  /\ (/\ t # u
                   /\ Ran(t, "add_team_guess")
                   /\ ru.op = "add_team_guess"
                   /\ ru.code = rt.code
                   /\ ru.normalized_word = rt.normalized_word
                   /\ ru.client_id # rt.client_id
                   /\ Live(TEAM_SESSIONS, rt.code)
                   /\ {rt.client_id, ru.client_id}
                          \subseteq PlayerIds(TEAM_SESSIONS[rt.code])
                   /\ rt.normalized_word
                          \notin DOMAIN TEAM_SESSIONS[rt.code].guess_index)
                  => /\ resp'[t].status = 200
                     /\ resp'[t].body.accepted = TRUE
                     /\ resp'[t].body.event.word = rt.word
                     /\ resp'[t].body.event.client_id = rt.client_id
                     /\ TEAM_SESSIONS'[rt.code].guesses
                            = Append(TEAM_SESSIONS[rt.code].guesses,
                                     resp'[t].body.event)
               /\ (/\ t # u
                   /\ Ran(t, "add_team_guess")
                   /\ GuessAnswer(first, "add_team_guess")
                   /\ first.body.accepted = TRUE
                   /\ first.request.code = rt.code
                   /\ first.request.normalized_word = rt.normalized_word
                   /\ first.request.client_id # rt.client_id
                   /\ Live(TEAM_SESSIONS, rt.code)
                   /\ rt.client_id \in PlayerIds(TEAM_SESSIONS[rt.code]))
                  => /\ resp'[t].status = 200
                     /\ resp'[t].body.accepted = FALSE
                     /\ resp'[t].body.event = first.body.event
                     /\ TEAM_SESSIONS'[rt.code].guesses
                            = TEAM_SESSIONS[rt.code].guesses]_vars

\* Both calls have returned, one accepted, and the ledger holds one event.
C4_Witness ==
    /\ GuessAnswer(resp["t1"], "add_team_guess")
    /\ GuessAnswer(resp["t2"], "add_team_guess")
    /\ resp["t1"].request.client_id # resp["t2"].request.client_id
    /\ resp["t1"].request.word # resp["t2"].request.word
    /\ resp["t1"].body.accepted = FALSE
    /\ resp["t2"].body.accepted = TRUE
    /\ resp["t1"].body.event = resp["t2"].body.event
    /\ Len(TEAM_SESSIONS[K1].guesses) = 1

(***************************************************************************)
(* C5. No session of either registry ever has more than TEAM_MAX_PLAYERS   *)
(* members, joins of one session by distinct clients racing for the lock   *)
(* included.                                                               *)
(***************************************************************************)
C5_AtMostTwoMembers ==
    /\ \A code \in DOMAIN TEAM_SESSIONS :
           /\ Len(TEAM_SESSIONS[code].players) <= TEAM_MAX_PLAYERS
           /\ Cardinality(PlayerIds(TEAM_SESSIONS[code])) <= TEAM_MAX_PLAYERS
    /\ \A code \in DOMAIN VERSUS_SESSIONS :
           /\ Len(VERSUS_SESSIONS[code].players) <= TEAM_MAX_PLAYERS
           /\ Cardinality(PlayerIds(VERSUS_SESSIONS[code])) <= TEAM_MAX_PLAYERS

\* One of two joins in flight together has filled the session; the join of
\* the other client, not a member, is still waiting for the lock.
C5_Witness ==
    /\ K1 \in DOMAIN VERSUS_SESSIONS
    /\ PlayerIds(VERSUS_SESSIONS[K1]) = {A, B}
    /\ resp["t1"].status = 200
    /\ resp["t1"].request.op = "join_versus_session"
    /\ resp["t1"].request.client_id = B
    /\ resp["t1"].body.player_count = 2
    /\ pending["t2"].op = "join_versus_session"
    /\ pending["t2"].client_id = C

(***************************************************************************)
(* C6. The ledger of a team session is numbered 1, 2, ..., n in ledger     *)
(* order and the session's counter is n + 1.                               *)
(***************************************************************************)
C6_TeamSeqGapFree ==
    \A code \in DOMAIN TEAM_SESSIONS :
        LET session == TEAM_SESSIONS[code]
        IN  /\ \A i \in 1..Len(session.guesses) : session.guesses[i].seq = i
            /\ session.next_seq = Len(session.guesses) + 1

\* Two events recorded, a duplicate answered in between or after.
C6_Witness ==
    /\ K1 \in DOMAIN TEAM_SESSIONS
    /\ Seqs(TEAM_SESSIONS[K1].guesses) = <<1, 2>>
    /\ GuessAnswer(resp["t1"], "add_team_guess")
    /\ resp["t1"].body.accepted = FALSE

(***************************************************************************)
(* C7. As claimed: the numbers within each player's ledger of a versus     *)
(* session are consecutive.                                                *)
(***************************************************************************)
C7_PlayerSeqGapFree ==
    \A code \in DOMAIN VERSUS_SESSIONS :
        \A pid \in DOMAIN VERSUS_SESSIONS[code].guesses_by_player :
            LET ledger == VERSUS_SESSIONS[code].guesses_by_player[pid]
            IN  \A i \in 1..(Len(ledger) - 1) : ledger[i + 1].seq = ledger[i].seq + 1

(***************************************************************************)
(* C7, amended. The numbers within each player's ledger of a versus        *)
(* session are strictly increasing and below the session's counter; the    *)
(* counter is the session's, so a ledger skips the numbers given to the    *)
(* other player.                                                           *)
(***************************************************************************)
C7_PlayerSeqIncreasing ==
    \A code \in DOMAIN VERSUS_SESSIONS :
        \A pid \in DOMAIN VERSUS_SESSIONS[code].guesses_by_player :
            LET ledger == VERSUS_SESSIONS[code].guesses_by_player[pid]
            IN  /\ \A i \in 1..(Len(ledger) - 1) : ledger[i + 1].seq > ledger[i].seq
                /\ \A i \in 1..Len(ledger) :
                       /\ ledger[i].seq >= 1
                       /\ ledger[i].seq < VERSUS_SESSIONS[code].next_seq

\* The players guessed in alternation: A holds 1 and 3, B holds 2.
C7_Witness ==
    /\ K1 \in DOMAIN VERSUS_SESSIONS
    /\ DOMAIN VERSUS_SESSIONS[K1].guesses_by_player = {A, B}
    /\ Seqs(VERSUS_SESSIONS[K1].guesses_by_player[A]) = <<1, 3>>
    /\ Seqs(VERSUS_SESSIONS[K1].guesses_by_player[B]) = <<2>>

(***************************************************************************)
(* C8. A key of a dedup index (the team index, a versus player's index)    *)
(* keeps its event in every step that keeps the session.                   *)
(***************************************************************************)
C8_IndexEntryNeverReplaced ==
    [][/\ \A code \in DOMAIN TEAM_SESSIONS :
              SameTeamSession(code)
              => \A key \in DOMAIN TEAM_SESSIONS[code].guess_index :
                     /\ key \in DOMAIN TEAM_SESSIONS'[code].guess_index
                     /\ TEAM_SESSIONS'[code].guess_index[key]
                            = TEAM_SESSIONS[code].guess_index[key]
       /\ \A code \in DOMAIN VERSUS_SESSIONS :
              SameVersusSession(code)
              => \A pid \in DOMAIN VERSUS_SESSIONS[code].guess_index_by_player :
                     /\ pid \in DOMAIN VERSUS_SESSIONS'[code].guess_index_by_player
                     /\ \A key \in DOMAIN VERSUS_SESSIONS[code]
                                              .guess_index_by_player[pid] :
                            /\ key \in DOMAIN VERSUS_SESSIONS'[code]
                                                  .guess_index_by_player[pid]
                            /\ VERSUS_SESSIONS'[code].guess_index_by_player[pid][key]
                                   = VERSUS_SESSIONS[code]
                                         .guess_index_by_player[pid][key]]_vars

\* A key held in both modes, with another key recorded after it, and a
\* later guess of the first key by the other member answered with the entry.
C8_Witness ==
    /\ K1 \in DOMAIN TEAM_SESSIONS /\ K1 \in DOMAIN VERSUS_SESSIONS
    /\ DOMAIN TEAM_SESSIONS[K1].guess_index = {WordYo, WordZ}
    /\ DOMAIN VERSUS_SESSIONS[K1].guess_index_by_player[A] = {WordYo, WordZ}
    /\ GuessAnswer(resp["t1"], "add_team_guess")
    /\ resp["t1"].body.accepted = FALSE
    /\ resp["t1"].request.client_id # resp["t1"].body.event.client_id
    /\ resp["t1"].body.event.seq = 1
    /\ resp["t1"].body.event = TEAM_SESSIONS[K1].guess_index[WordYo]

(***************************************************************************)
(* C9. In a versus session without a winner a member's guess is looked up  *)
(* in that member's index alone: a key the member holds is answered        *)
(* accepted = false with the member's own first event; a key the member    *)
(* does not hold is answered accepted = true with a new event appended to  *)
(* the member's ledger, whoever else holds the key.                        *)
(***************************************************************************)
C9_VersusDedupPerPlayer ==
    [][\A t \in Threads :
           LET req == pending[t]
               key == _normalize_guess_value(req.word)
               session == VERSUS_SESSIONS[req.code]
               after == VERSUS_SESSIONS'[req.code]
               own == session.guesses_by_player[req.client_id]
           IN  (/\ Ran(t, "add_versus_guess")
                /\ Live(VERSUS_SESSIONS, req.code)
                /\ req.client_id \in PlayerIds(session)
                /\ session.winner_id = <<>>)
               => /\ resp'[t].status = 200
                  /\ SameVersusSession(req.code)
                  /\ IF WithKey(own, key) # {}
                     THEN /\ resp'[t].body.accepted = FALSE
                          /\ resp'[t].body.event = FirstWithKey(own, key)
                          /\ after.guesses_by_player = session.guesses_by_player
                     ELSE /\ resp'[t].body.accepted = TRUE
                          /\ resp'[t].body.event.word = req.word
                          /\ resp'[t].body.event.client_id = req.client_id
                          /\ after.guesses_by_player[req.client_id]
                                 = Append(own, resp'[t].body.event)
                          /\ \A pid \in DOMAIN session.guesses_by_player \ {req.client_id} :
                                 after.guesses_by_player[pid]
                                     = session.guesses_by_player[pid]]_vars

\* B's guess of a key that A holds was accepted.
C9_Witness ==
    /\ GuessAnswer(resp["t1"], "add_versus_guess")
    /\ resp["t1"].request.client_id = B
    /\ resp["t1"].body.accepted = TRUE
    /\ resp["t1"].request.normalized_word
           \in DOMAIN VERSUS_SESSIONS[K1].guess_index_by_player[A]
    /\ VERSUS_SESSIONS[K1].guess_index_by_player[A]
           [resp["t1"].request.normalized_word].seq < resp["t1"].body.event.seq

(***************************************************************************)
(* C10. A member's guess in a versus session whose winner is set is        *)
(* answered 409 and leaves the session as it was; no step makes a ledger,  *)
(* an index or the counter of a finished session change (a client joining  *)
(* a finished session gets a ledger and an index, which stay empty).       *)
(***************************************************************************)
C10_FinishedRejectsGuesses ==
    [][/\ \A t \in Threads :
              LET req == pending[t]
              IN  (/\ Ran(t, "add_versus_guess")
                   /\ Live(VERSUS_SESSIONS, req.code)
                   /\ req.client_id \in PlayerIds(VERSUS_SESSIONS[req.code])
                   /\ VERSUS_SESSIONS[req.code].winner_id # <<>>)
                  => /\ resp'[t].status = 409
                     /\ req.code \in DOMAIN VERSUS_SESSIONS'
                     /\ VERSUS_SESSIONS'[req.code] = VERSUS_SESSIONS[req.code]
       /\ \A code \in DOMAIN VERSUS_SESSIONS :
              (SameVersusSession(code) /\ VERSUS_SESSIONS[code].winner_id # <<>>)
              => /\ \A pid \in DOMAIN VERSUS_SESSIONS'[code].guesses_by_player :
                        VERSUS_SESSIONS'[code].guesses_by_player[pid]
                            = Get(VERSUS_SESSIONS[code].guesses_by_player, pid, <<>>)
                 /\ \A pid \in DOMAIN VERSUS_SESSIONS'[code].guess_index_by_player :
                        VERSUS_SESSIONS'[code].guess_index_by_player[pid]
                            = Get(VERSUS_SESSIONS[code].guess_index_by_player,
                                  pid, EmptyStore)
                 /\ VERSUS_SESSIONS'[code].next_seq
                        = VERSUS_SESSIONS[code].next_seq]_vars

\* A guess of a word not recorded before was refused after the win.
C10_Witness ==
    /\ resp["t1"].status = 409
    /\ resp["t1"].request.op = "add_versus_guess"
    /\ K1 \in DOMAIN VERSUS_SESSIONS
    /\ VERSUS_SESSIONS[K1].winner_id # <<>>
    /\ resp["t1"].request.client_id \in PlayerIds(VERSUS_SESSIONS[K1])
    /\ resp["t1"].request.normalized_word
           \notin DOMAIN VERSUS_SESSIONS[K1]
                      .guess_index_by_player[resp["t1"].request.client_id]

(***************************************************************************)
(* C11. A create that succeeds returns a code that the registry, after the  *)
(* eviction pass of that call, does not hold: every session the pass keeps *)
(* is in the registry afterwards as it was, the new session is stored      *)
(* under the returned code, and every session is stored under its own      *)
(* code, whichever way concurrent creates interleave.                      *)
(***************************************************************************)
\* The step of a successful create on `store`, giving `after`.
C11_FreshCode(t, store, after) ==
    LET code == resp'[t].body.code
    IN  /\ ~Live(store, code)
        /\ \A c \in DOMAIN store : Live(store, c) => c \in DOMAIN after /\ after[c] = store[c]
        /\ code \in DOMAIN after
        /\ after[code].code = code
        /\ after[code].host_id = pending[t].client_id
        /\ after[code].created_at = now
        /\ DOMAIN after = {c \in DOMAIN store : Live(store, c)} \cup {code}

C11_EveryCodeOnce(store) ==
    /\ \A c \in DOMAIN store : store[c].code = c
    /\ \A c \in DOMAIN store, d \in DOMAIN store :
           store[c].code = store[d].code => c = d

C11_CreateNeverOverwrites ==
    [][/\ \A t \in Threads :
              /\ (Ran(t, "create_team_session") /\ resp'[t].status = 200)
                     => C11_FreshCode(t, TEAM_SESSIONS, TEAM_SESSIONS')
              /\ (Ran(t, "create_versus_session") /\ resp'[t].status = 200)
                     => C11_FreshCode(t, VERSUS_SESSIONS, VERSUS_SESSIONS')
       /\ C11_EveryCodeOnce(TEAM_SESSIONS')
       /\ C11_EveryCodeOnce(VERSUS_SESSIONS')]_vars

\* Two creates in flight together have returned the two codes, and both
\* sessions are in the registry.
C11_Witness ==
    /\ resp["t1"].status = 200 /\ resp["t2"].status = 200
    /\ resp["t1"].request.op = "create_team_session"
    /\ resp["t2"].request.op = "create_team_session"
    /\ resp["t1"].body.code # resp["t2"].body.code
    /\ DOMAIN TEAM_SESSIONS = {K1, K2}
    /\ TEAM_SESSIONS[resp["t1"].body.code].host_id = resp["t1"].request.client_id
    /\ TEAM_SESSIONS[resp["t2"].body.code].host_id = resp["t2"].request.client_id
    /\ TEAM_SESSIONS[K1].host_id # TEAM_SESSIONS[K2].host_id

(***************************************************************************)
(* C12. A join, state read, guess or title guess that addresses a session  *)
(* idle for more than one TTL is answered 404 and the session is not in    *)
(* the registry afterwards; such a call is answered anything but 404 only  *)
(* when the session it addresses is in the registry and not idle past the  *)
(* TTL, and after any call no session of the registry it ran on is idle    *)
(* past the TTL.                                                           *)
(***************************************************************************)
C12_Step(t, ops, store, after) ==
    \A op \in ops :
        Ran(t, op) =>
            LET code == pending[t].code
            IN  /\ Expired(store, code)
                       => resp'[t].status = 404 /\ code \notin DOMAIN after
                /\ resp'[t].status # 404
                       => /\ Live(store, code)
                          /\ code \in DOMAIN after
                          /\ after[code].created_at = store[code].created_at
                /\ \A c \in DOMAIN after :
                       now - after[c].updated_at <= TEAM_SESSION_TTL_SECONDS

C12_ExpiredIsNotFound ==
    [][\A t \in Threads :
           /\ C12_Step(t, TeamCodeOps, TEAM_SESSIONS, TEAM_SESSIONS')
           /\ C12_Step(t, VersusCodeOps, VERSUS_SESSIONS, VERSUS_SESSIONS')]_vars

\* One second past the deadline a state read was answered 404 and the
\* registry is empty, while the versus session, read at the deadline
\* itself, is still there.
C12_Witness ==
    /\ now = TEAM_SESSION_TTL_SECONDS + 1
    /\ resp["t1"].status = 404
    /\ resp["t1"].request.op = "get_team_session_state"
    /\ resp["t1"].request.code = K1
    /\ TEAM_SESSIONS = EmptyStore
    /\ K1 \in DOMAIN VERSUS_SESSIONS
    /\ VERSUS_SESSIONS[K1].created_at = 0
    /\ VERSUS_SESSIONS[K1].updated_at = TEAM_SESSION_TTL_SECONDS

(***************************************************************************)
(* C13. As claimed: every join, guess (accepted or not) and state read     *)
(* that is answered 200 sets the session's updated_at to the time of the   *)
(* call.                                                                   *)
(***************************************************************************)
C13_Refreshed(t, ops, after) ==
    \A op \in ops :
        (Ran(t, op) /\ resp'[t].status = 200)
        => /\ pending[t].code \in DOMAIN after
           /\ after[pending[t].code].updated_at = now

C13_EveryCallRefreshes ==
    [][\A t \in Threads :
           /\ C13_Refreshed(t, {"join_team_session", "get_team_session_state",
                                "add_team_guess"}, TEAM_SESSIONS')
           /\ C13_Refreshed(t, {"join_versus_session", "get_versus_session_state",
                                "add_versus_guess"}, VERSUS_SESSIONS')]_vars

(***************************************************************************)
(* C14. As claimed: a call that ends in an error leaves both registries    *)
(* exactly as they were.                                                   *)
(***************************************************************************)
C14_FailureChangesNothing ==
    [][\A t \in Threads :
           Failed(t) => /\ TEAM_SESSIONS' = TEAM_SESSIONS
                        /\ VERSUS_SESSIONS' = VERSUS_SESSIONS]_vars

(***************************************************************************)
(* C14, amended. A call that ends in an error adds no session and leaves   *)
(* every session that is not idle past the TTL exactly as it was: the only *)
(* change it makes is the eviction pass it ran inside the lock, on its own *)
(* registry, which removed the sessions idle for more than one TTL.  A     *)
(* call rejected before the lock changes nothing.                          *)
(***************************************************************************)
C14_OnlyEvicted(store, after) ==
    /\ DOMAIN after = {c \in DOMAIN store : ~Expired(store, c)}
    /\ \A c \in DOMAIN after : after[c] = store[c]

C14_FailureOnlyEvicts ==
    [][\A t \in Threads :
           Failed(t) =>
               LET op == pending[t].op
               IN  IF op \in TeamCodeOps \cup {"create_team_session"}
                   THEN /\ C14_OnlyEvicted(TEAM_SESSIONS, TEAM_SESSIONS')
                        /\ VERSUS_SESSIONS' = VERSUS_SESSIONS
                   ELSE IF op \in VersusCodeOps \cup {"create_versus_session"}
                   THEN /\ C14_OnlyEvicted(VERSUS_SESSIONS, VERSUS_SESSIONS')
                        /\ TEAM_SESSIONS' = TEAM_SESSIONS
                   ELSE /\ TEAM_SESSIONS' = TEAM_SESSIONS
                        /\ VERSUS_SESSIONS' = VERSUS_SESSIONS]_vars

\* On the deadline of a session last touched at 0, a guess by a client who
\* never joined was refused, and the session is there as it was created.
C14_Witness ==
    /\ now = TEAM_SESSION_TTL_SECONDS
    /\ resp["t1"].status = 403
    /\ resp["t1"].request.op = "add_versus_guess"
    /\ K1 \in DOMAIN VERSUS_SESSIONS
    /\ VERSUS_SESSIONS[K1]
           = VersusSession(K1, A, 2, SongYZ, 0)

(***************************************************************************)
(* C19. A state read, guess or title guess, in either mode, by a client    *)
(* who is not a member of the session it addresses (the session being in   *)
(* the registry and not idle past the TTL) is answered 403 and leaves the  *)
(* session as it was, updated_at included.                                 *)
(***************************************************************************)
C19_Step(t, ops, store, after) ==
    \A op \in ops :
        LET req == pending[t]
        IN  (/\ Ran(t, op)
             /\ Live(store, req.code)
             /\ req.client_id \notin PlayerIds(store[req.code]))
            => /\ resp'[t].status = 403
               /\ req.code \in DOMAIN after
               /\ after[req.code] = store[req.code]

C19_NonMemberForbidden ==
    [][\A t \in Threads :
           /\ C19_Step(t, TeamCodeOps \ {"join_team_session"},
                       TEAM_SESSIONS, TEAM_SESSIONS')
           /\ C19_Step(t, VersusCodeOps \ {"join_versus_session"},
                       VERSUS_SESSIONS, VERSUS_SESSIONS')]_vars

\* B, who never joined, sent the right title one TTL after the session was
\* last touched: refused, and the session has no winner and its old
\* updated_at.
C19_Witness ==
    /\ now = TEAM_SESSION_TTL_SECONDS
    /\ resp["t1"].status = 403
    /\ resp["t1"].request.op = "add_versus_title_guess"
    /\ resp["t1"].request.client_id = B
    /\ K1 \in DOMAIN VERSUS_SESSIONS
    /\ TitleCorrect(VERSUS_SESSIONS[K1], resp["t1"].request.title_guess)
    /\ VERSUS_SESSIONS[K1].winner_id = <<>>
    /\ VERSUS_SESSIONS[K1].updated_at = 0

(***************************************************************************)
(* C17. A join, in either mode, on a code the registry does not hold is    *)
(* answered 404 and the code stays out of the registry; a join by a client *)
(* who is not a member of a session that has TEAM_MAX_PLAYERS members is   *)
(* answered 409 and leaves the session, its members included, as it was.   *)
(***************************************************************************)
C17_Step(t, op, store, after) ==
    LET req == pending[t]
    IN  Ran(t, op) =>
            /\ req.code \notin DOMAIN store
                   => resp'[t].status = 404 /\ req.code \notin DOMAIN after
            /\ (/\ Live(store, req.code)
                /\ req.client_id \notin PlayerIds(store[req.code])
                /\ Cardinality(PlayerIds(store[req.code])) >= TEAM_MAX_PLAYERS)
                   => /\ resp'[t].status = 409
                      /\ req.code \in DOMAIN after
                      /\ after[req.code].players = store[req.code].players
                      /\ after[req.code] = store[req.code]

C17_JoinErrors ==
    [][\A t \in Threads :
           /\ C17_Step(t, "join_team_session", TEAM_SESSIONS, TEAM_SESSIONS')
           /\ C17_Step(t, "join_versus_session",
                       VERSUS_SESSIONS, VERSUS_SESSIONS')]_vars

\* C was refused by the full team session; a join of the versus registry,
\* which holds no session, was answered 404.
C17_Witness ==
    /\ resp["t1"].status = 409
    /\ resp["t1"].request.op = "join_team_session"
    /\ resp["t1"].request.client_id = C
    /\ K1 \in DOMAIN TEAM_SESSIONS
    /\ PlayerIds(TEAM_SESSIONS[K1]) = {A, B}
    /\ Len(TEAM_SESSIONS[K1].players) = 2
    /\ resp["t2"].status = 404
    /\ resp["t2"].request.op = "join_versus_session"
    /\ VERSUS_SESSIONS = EmptyStore

(***************************************************************************)
(* C18. A join, in either mode, by a client who is a member of the session *)
(* it addresses (the session being in the registry and not idle past the   *)
(* TTL, full or not) is answered 200 and changes nothing of the session    *)
(* but updated_at: members, their joined_at, ledgers, indices, counter,    *)
(* finders of the title and winner are as before.                          *)
(***************************************************************************)
C18_Step(t, op, store, after) ==
    LET req == pending[t]
    IN  (/\ Ran(t, op)
         /\ Live(store, req.code)
         /\ req.client_id \in PlayerIds(store[req.code]))
        => /\ resp'[t].status = 200
           /\ resp'[t].body.player_count = Len(store[req.code].players)
           /\ req.code \in DOMAIN after
           /\ after[req.code] = [store[req.code] EXCEPT !.updated_at = now]

C18_RejoinIsNoOp ==
    [][\A t \in Threads :
           /\ C18_Step(t, "join_team_session", TEAM_SESSIONS, TEAM_SESSIONS')
           /\ C18_Step(t, "join_versus_session",
                       VERSUS_SESSIONS, VERSUS_SESSIONS')]_vars

\* B, who joined at 0, guessed and won, joined again one TTL later: the
\* session is full, B's joined_at, ledger and win are kept.
C18_Witness ==
    /\ now = TEAM_SESSION_TTL_SECONDS
    /\ resp["t1"].status = 200
    /\ resp["t1"].request.op = "join_versus_session"
    /\ resp["t1"].request.client_id = B
    /\ resp["t1"].body.is_full
    /\ K1 \in DOMAIN VERSUS_SESSIONS
    /\ VERSUS_SESSIONS[K1].players
           = <<[id |-> A, joined_at |-> 0], [id |-> B, joined_at |-> 0]>>
    /\ Len(VERSUS_SESSIONS[K1].guesses_by_player[B]) = 1
    /\ VERSUS_SESSIONS[K1].winner_id = B
    /\ VERSUS_SESSIONS[K1].updated_at = now

(***************************************************************************)
(* C20. As claimed: a title followed by an annotation " (feat. X)" has the *)
(* normal form of the title alone, so a member's title guess that is the   *)
(* stored title followed by such an annotation is judged correct.          *)
(***************************************************************************)
C20_FeatAnnotationIgnored ==
    [][\A t \in Threads :
           LET req == pending[t]
           IN  (/\ Ran(t, "add_team_title_guess")
                /\ Live(TEAM_SESSIONS, req.code)
                /\ req.client_id \in PlayerIds(TEAM_SESSIONS[req.code])
                /\ \E X \in Artists :
                       req.title_guess
                           = TEAM_SESSIONS[req.code].song.title \o FeatAnnotation(X))
               => /\ _normalize_title_value(req.title_guess)
                         = _normalize_title_value(TEAM_SESSIONS[req.code].song.title)
                  /\ resp'[t].status = 200
                  /\ resp'[t].body.correct]_vars

(***************************************************************************)
(* C16. A guess that is accepted gets a number larger than the number of   *)
(* every event the session holds when its call runs the lock block, the    *)
(* events of the other player of a versus session included: of two         *)
(* accepted guesses of a session, the one whose call ran the block earlier *)
(* has the smaller number, whichever request was received and normalised   *)
(* first.                                                                  *)
(***************************************************************************)
C16_Step(t, u, op, session, events) ==
    (/\ Ran(t, op)
     /\ resp'[t].status = 200
     /\ resp'[t].body.accepted)
    => /\ \A e \in events : e.seq < resp'[t].body.event.seq
       /\ resp'[t].body.event.seq = session.next_seq
       /\ (/\ u # t
           /\ GuessAnswer(resp[u], op)
           /\ resp[u].body.accepted
           /\ resp[u].request.code = pending[t].code
           /\ resp[u].body.event \in events)
              => resp[u].body.event.seq < resp'[t].body.event.seq

C16_LockOrderIsSeqOrder ==
    [][\A t \in Threads, u \in Threads :
           /\ pending[t].op = "add_team_guess"
                  /\ pending[t].code \in DOMAIN TEAM_SESSIONS
                  => C16_Step(t, u, "add_team_guess",
                              TEAM_SESSIONS[pending[t].code],
                              TeamEvents(TEAM_SESSIONS[pending[t].code]))
           /\ pending[t].op = "add_versus_guess"
                  /\ pending[t].code \in DOMAIN VERSUS_SESSIONS
                  => C16_Step(t, u, "add_versus_guess",
                              VERSUS_SESSIONS[pending[t].code],
                              VersusEvents(VERSUS_SESSIONS[pending[t].code]))]_vars

\* Both players of a versus session hold an accepted answer: B's call ran
\* first and has number 1, A's has number 2.
C16_Witness ==
    /\ GuessAnswer(resp["t1"], "add_versus_guess")
    /\ GuessAnswer(resp["t2"], "add_versus_guess")
    /\ resp["t1"].request.client_id = A
    /\ resp["t2"].request.client_id = B
    /\ resp["t1"].body.accepted /\ resp["t2"].body.accepted
    /\ resp["t2"].body.event.seq = 1
    /\ resp["t1"].body.event.seq = 2
    /\ K1 \in DOMAIN VERSUS_SESSIONS
    /\ VERSUS_SESSIONS[K1].guesses_by_player[A] = <<resp["t1"].body.event>>
    /\ VERSUS_SESSIONS[K1].guesses_by_player[B] = <<resp["t2"].body.event>>

(***************************************************************************)
(* C15: at most one operation is inside the block of a registry's lock at  *)
(* any time, and every step that reads or writes the sessions of a         *)
(* registry, the eviction pass and the building of the returned view       *)
(* included, is taken by the thread that holds the registry's lock; so a   *)
(* session that one operation has only partly updated is seen by no other  *)
(* operation: while a team session's counter, ledger, index and last       *)
(* activity disagree, the thread that is updating it holds the lock, and   *)
(* two correct title guesses never both read "no winner yet".              *)
(***************************************************************************)
\* The threads inside the block of a lock.
Inside(lock) ==
    {t \in Threads : pending[t].op = "in_block" /\ pending[t].lock = lock}

\* A team session as every complete operation leaves it: the counter is one
\* past the ledger, the events are numbered in ledger order, the index holds
\* exactly the events of the ledger, and the last activity is not older than
\* any event.
TeamWhole(session) ==
    /\ session.next_seq = Len(session.guesses) + 1
    /\ \A i \in 1..Len(session.guesses) :
           /\ session.guesses[i].seq = i
           /\ session.updated_at >= session.guesses[i].created_at
           /\ \E key \in DOMAIN session.guess_index :
                  session.guess_index[key] = session.guesses[i]
    /\ \A key \in DOMAIN session.guess_index :
           \E i \in 1..Len(session.guesses) :
               session.guesses[i] = session.guess_index[key]

\* The lock is held exactly while a thread is inside its block, by that
\* thread, and by one thread only.
C15_Exclusive(lock, holder) ==
    /\ Cardinality(Inside(lock)) <= 1
    /\ holder = Unlocked <=> Inside(lock) = {}
    /\ \A t \in Inside(lock) : holder = t

\* A partly updated team session exists only while the thread that holds the
\* team lock is between its first and its last write.
C15_PartlyUpdatedIsLocked ==
    (\E code \in DOMAIN TEAM_SESSIONS : ~TeamWhole(TEAM_SESSIONS[code]))
        => \E t \in Threads :
               /\ TEAM_LOCK = t
               /\ Inside("TEAM_LOCK") = {t}
               /\ pending[t].at \in {379, 380, 381}

\* Thread t takes a step of an operation of the registry: a handler run in
\* one step, the acquisition of the lock, or a step inside the block.
C15_Steps(t, lock, ops) ==
    \/ pending[t].op \in ops /\ pending'[t].op \in {"idle", "in_block"}
    \/ t \in Inside(lock) /\ pending'[t] # pending[t]

\* A step of t into the block finds the lock unlocked and nobody inside; a
\* step of t inside the block is taken while t holds the lock.
C15_ByHolder(t, lock, holder, ops) ==
    /\ pending[t].op \in ops /\ pending'[t].op \in {"idle", "in_block"}
           => holder = Unlocked /\ Inside(lock) = {}
    /\ t \in Inside(lock) /\ pending'[t] # pending[t]
           => holder = t /\ Inside(lock) = {t}

C15_Step ==
    /\ \A t \in Threads :
           /\ C15_ByHolder(t, "TEAM_LOCK", TEAM_LOCK,
                           TeamCodeOps \cup {"create_team_session"})
           /\ C15_ByHolder(t, "VERSUS_LOCK", VERSUS_LOCK,
                           VersusCodeOps \cup {"create_versus_session"})
           \* what a reading step sees is whole
           /\ (\/ C15_Steps(t, "TEAM_LOCK",
                            TeamCodeOps \cup {"create_team_session"})
                     /\ (t \in Inside("TEAM_LOCK")
                             => pending[t].at \in {360, 361}))
                  => \A code \in DOMAIN TEAM_SESSIONS :
                         TeamWhole(TEAM_SESSIONS[code])
    /\ TEAM_SESSIONS' # TEAM_SESSIONS
           => \E t \in Threads :
                  C15_Steps(t, "TEAM_LOCK",
                            TeamCodeOps \cup {"create_team_session"})
    /\ VERSUS_SESSIONS' # VERSUS_SESSIONS
           => \E t \in Threads :
                  C15_Steps(t, "VERSUS_LOCK",
                            VersusCodeOps \cup {"create_versus_session"})

\* The answer of a state read is written out: its ledger is read from the
\* session by the thread that holds the team lock, and the session it is read
\* from is whole.
C15_AnswerRead ==
    \A t \in Threads :
        pending[t].op = "returning" /\ pending'[t].op = "idle"
            => /\ TEAM_LOCK = t
               /\ TeamWhole(TEAM_SESSIONS[pending[t].request.code])

\* The part of the statement about the blocks alone: it holds.
C15_InsideTheBlocks ==
    /\ [](/\ C15_Exclusive("TEAM_LOCK", TEAM_LOCK)
          /\ C15_Exclusive("VERSUS_LOCK", VERSUS_LOCK)
          /\ C15_PartlyUpdatedIsLocked
          /\ C1_Answers)
    /\ [][C15_Step]_vars

\* What an answer shows of a session that another operation is updating: the
\* ledger of a state answer is never ahead of the session's index and
\* counter.
C15_AnswerSeesWholeSession ==
    [][\A t \in Threads :
           pending[t].op = "returning" /\ pending'[t].op = "idle"
               => TeamWhole(TEAM_SESSIONS[pending[t].request.code])]_vars

C15_OneThreadPerRegistry ==
    /\ [](/\ C15_Exclusive("TEAM_LOCK", TEAM_LOCK)
          /\ C15_Exclusive("VERSUS_LOCK", VERSUS_LOCK)
          /\ C15_PartlyUpdatedIsLocked
          /\ C1_Answers)
    /\ [][C15_Step /\ C15_AnswerRead]_vars

\* One thread is between the append and the indexing of its event, the
\* session's counter and index disagreeing with its ledger, while the other
\* thread waits at the team lock with a guess for the same session.
C15_Waiting ==
    \E t \in Threads, u \in Threads :
        /\ t # u
        /\ At(t, "TEAM_LOCK", 380)
        /\ TEAM_LOCK = t
        /\ ~TeamWhole(TEAM_SESSIONS[pending[t].request.code])
        /\ pending[u].op = "add_team_guess"
        /\ pending[u].code = pending[t].request.code

\* A state answer shows an event that is not yet indexed: the guess that
\* appended it is still inside the block.
C15_AnswerAhead ==
    \E t \in Threads, u \in Threads :
        /\ t # u
        /\ resp[t].status = 200
        /\ resp[t].request.op = "get_team_session_state"
        /\ Len(resp[t].body.guesses) = 1
        /\ At(u, "TEAM_LOCK", 380)
        /\ pending[u].local = resp[t].body.guesses[1]

(***************************************************************************)
(* C21. As claimed, the end-to-end team scenario: A creates a session with *)
(* the title "Y Z"; B's join answers player_count 2; A's guess "bonjour"   *)
(* is accepted with seq 1; B's guess "Bonjour" is answered accepted false  *)
(* with that same event; A's title guess "y z (feat. Q)" is answered       *)
(* correct.                                                                *)
(***************************************************************************)
\* The session of the scenario, as it is before the step.
C21_Session(req) == TEAM_SESSIONS[req.code]

\* A has created the session and nothing else has happened to it.
C21_Created(req) ==
    /\ req.code \in DOMAIN TEAM_SESSIONS
    /\ C21_Session(req).host_id = A
    /\ C21_Session(req).song.title = SongYZ.title
    /\ PlayerIds(C21_Session(req)) = {A}
    /\ C21_Session(req).guesses = <<>>

\* B has joined.
C21_Joined(req) ==
    /\ req.code \in DOMAIN TEAM_SESSIONS
    /\ C21_Session(req).host_id = A
    /\ C21_Session(req).song.title = SongYZ.title
    /\ PlayerIds(C21_Session(req)) = {A, B}

\* A has guessed "bonjour" and nothing else has been guessed.
C21_Guessed(req) ==
    /\ C21_Joined(req)
    /\ Len(C21_Session(req).guesses) = 1
    /\ C21_Session(req).guesses[1].word = WordBonjour
    /\ C21_Session(req).guesses[1].client_id = A

\* The join and the two guesses of the scenario.
C21_JoinAndGuesses(t) ==
    LET req == pending[t]
    IN  /\ (/\ Ran(t, "join_team_session") /\ req.client_id = B
            /\ C21_Created(req))
               => /\ resp'[t].status = 200
                  /\ resp'[t].body.player_count = 2
        /\ (/\ Ran(t, "add_team_guess") /\ req.client_id = A
            /\ req.word = WordBonjour
            /\ C21_Joined(req) /\ C21_Session(req).guesses = <<>>)
               => /\ resp'[t].status = 200
                  /\ resp'[t].body.accepted
                  /\ resp'[t].body.event.seq = 1
                  /\ TEAM_SESSIONS'[req.code].guesses = <<resp'[t].body.event>>
        /\ (/\ Ran(t, "add_team_guess") /\ req.client_id = B
            /\ req.word = WordBonjourCap
            /\ C21_Guessed(req))
               => /\ resp'[t].status = 200
                  /\ ~resp'[t].body.accepted
                  /\ resp'[t].body.event = C21_Session(req).guesses[1]
                  /\ resp'[t].body.event.seq = 1

\* The title guess that ends the scenario.
C21_TitleGuess(t) ==
    LET req == pending[t]
    IN  (/\ Ran(t, "add_team_title_guess") /\ req.client_id = A
         /\ req.title_guess = TitleYZFeatQ
         /\ C21_Guessed(req))
            => /\ resp'[t].status = 200
               /\ resp'[t].body.correct

\* The scenario without its last answer: it holds.
C21_UpToTheTitleGuess == [][\A t \in Threads : C21_JoinAndGuesses(t)]_vars

C21_EndToEnd ==
    [][\A t \in Threads : C21_JoinAndGuesses(t) /\ C21_TitleGuess(t)]_vars

\* The scenario has run to its fourth answer: B holds the answer to
\* "Bonjour", not accepted, with A's event.
C21_FourthAnswer ==
    /\ resp["t1"].status = 200
    /\ resp["t1"].request.op = "add_team_guess"
    /\ resp["t1"].request.client_id = B
    /\ resp["t1"].request.word = WordBonjourCap
    /\ ~resp["t1"].body.accepted
    /\ resp["t1"].body.event.client_id = A
    /\ resp["t1"].body.event.word = WordBonjour

(***************************************************************************)
(* C22. A member's title guess on an existing session, both normal forms   *)
(* non-empty, is answered correct exactly when the normal form of the      *)
(* guess equals the normal form of the stored title; a guess whose normal  *)
(* form is only a part of the stored one's, or contains it, is answered    *)
(* not correct; the answer carries the stored title when correct and no    *)
(* title otherwise.  In both modes.                                        *)
(***************************************************************************)
C22_Step(t, op, store) ==
    LET req == pending[t]
        guess == _normalize_title_value(req.title_guess)
        stored == _normalize_title_value(store[req.code].song.title)
    IN  (/\ Ran(t, op)
         /\ Live(store, req.code)
         /\ req.client_id \in PlayerIds(store[req.code])
         /\ guess # <<>> /\ stored # <<>>)
            => /\ resp'[t].status = 200
               /\ resp'[t].body.correct <=> guess = stored
               /\ ProperInfix(guess, stored) \/ ProperInfix(stored, guess)
                      => ~resp'[t].body.correct
               /\ resp'[t].body.title
                      = IF resp'[t].body.correct
                        THEN store[req.code].song.title ELSE None

Finders(session) == Range(session.title_found_by)

C23_NoFinderTwice ==
    \A code \in DOMAIN TEAM_SESSIONS :
        LET found == TEAM_SESSIONS[code].title_found_by
        IN  /\ Len(found) <= 2
            /\ \A i \in 1..Len(found), j \in 1..Len(found) :
                   found[i] = found[j] => i = j

\* Thread t is answered a correct title guess on the session under `code`.
C23_Correct(t, code) ==
    /\ Ran(t, "add_team_title_guess")
    /\ pending[t].code = code
    /\ resp'[t].status = 200
    /\ resp'[t].body.correct

C23_Step ==
    /\ \A code \in DOMAIN TEAM_SESSIONS' :
           LET after == TEAM_SESSIONS'[code]
           IN  IF ~SameTeamSession(code) THEN after.title_found_by = <<>>
               ELSE IF \E t \in Threads : C23_Correct(t, code)
               THEN \A t \in Threads :
                        C23_Correct(t, code) =>
                            IF pending[t].client_id \in Finders(TEAM_SESSIONS[code])
                            THEN after = TEAM_SESSIONS[code]
                            ELSE /\ Finders(after)
                                        = Finders(TEAM_SESSIONS[code])
                                              \cup {pending[t].client_id}
                                 /\ Len(after.title_found_by)
                                        = Len(TEAM_SESSIONS[code].title_found_by)
                                              + 1
               ELSE after.title_found_by = TEAM_SESSIONS[code].title_found_by
    /\ \A t \in Threads :
           /\ (Ran(t, "add_team_title_guess") /\ resp'[t].status = 200)
                  => resp'[t].body.state.title_found_by_count
                         = Cardinality(Finders(TEAM_SESSIONS'[pending[t].code]))
           /\ (/\ pending[t].op \in {"create_team_session", "join_team_session",
                                     "get_team_session_state"}
               /\ pending'[t].op = "idle"
               /\ resp'[t].status = 200)
                  => resp'[t].body.title_found_by_count
                         = Cardinality(Finders(TEAM_SESSIONS'[resp'[t].body.code]))

C23_FindersAreTheCorrectGuessers ==
    [](C23_NoFinderTwice) /\ [][C23_Step]_vars

\* Both members have found the title, and the one recorded first has since
\* been answered correct again: the answer counts two finders.
C23_Witness ==
    /\ K1 \in DOMAIN TEAM_SESSIONS
    /\ Len(TEAM_SESSIONS[K1].title_found_by) = 2
    /\ resp["t1"].status = 200
    /\ resp["t1"].request.op = "add_team_title_guess"
    /\ resp["t1"].request.client_id = TEAM_SESSIONS[K1].title_found_by[1]
    /\ resp["t1"].body.correct
    /\ resp["t1"].body.state.title_found_by_count = 2
    /\ resp["t1"].body.state.teammate_found_title

(***************************************************************************)
(* C24. A team session has no terminal state: whenever the session exists, *)
(* a member's guess whose key is not in the index is accepted and          *)
(* recorded, whether none, one or both of the members have found the       *)
(* title.                                                                  *)
(***************************************************************************)
C24_NewKeyAlwaysAccepted ==
    [][\A t \in Threads :
           LET req == pending[t]
           IN  (/\ Ran(t, "add_team_guess")
                /\ Live(TEAM_SESSIONS, req.code)
                /\ req.client_id \in PlayerIds(TEAM_SESSIONS[req.code])
                /\ req.normalized_word
                       \notin DOMAIN TEAM_SESSIONS[req.code].guess_index)
               => /\ resp'[t].status = 200
                  /\ resp'[t].body.accepted
                  /\ resp'[t].body.event.word = req.word
                  /\ resp'[t].body.event.client_id = req.client_id
                  /\ TEAM_SESSIONS'[req.code].guesses
                         = Append(TEAM_SESSIONS[req.code].guesses,
                                  resp'[t].body.event)
                  /\ TEAM_SESSIONS'[req.code].title_found_by
                         = TEAM_SESSIONS[req.code].title_found_by]_vars

\* Both members have found the title and the last call, a guess, has been
\* accepted: the one thread's title answers came before it.
C24_Witness ==
    /\ K1 \in DOMAIN TEAM_SESSIONS
    /\ Len(TEAM_SESSIONS[K1].title_found_by) = 2
    /\ resp["t1"].status = 200
    /\ resp["t1"].request.op = "add_team_guess"
    /\ resp["t1"].body.accepted
    /\ TEAM_SESSIONS[K1].guesses = <<resp["t1"].body.event>>

(***************************************************************************)
(* C25. Ledgers are append-only: across every step in which a session      *)
(* stays the same session, each of its ledgers before the step is the      *)
(* beginning of the same ledger after it, so no event is ever removed,     *)
(* moved or modified between two states of the session; and a state read   *)
(* answers with the ledgers as they stand, so what a client has read is    *)
(* the beginning of what it or its session-mate reads later.               *)
(***************************************************************************)
C25_Step ==
    /\ \A code \in DOMAIN TEAM_SESSIONS :
           SameTeamSession(code)
               => Prefix(TEAM_SESSIONS[code].guesses,
                         TEAM_SESSIONS'[code].guesses)
    /\ \A code \in DOMAIN VERSUS_SESSIONS :
           SameVersusSession(code)
               => \A pid \in DOMAIN VERSUS_SESSIONS[code].guesses_by_player :
                      /\ pid \in DOMAIN VERSUS_SESSIONS'[code].guesses_by_player
                      /\ Prefix(VERSUS_SESSIONS[code].guesses_by_player[pid],
                                VERSUS_SESSIONS'[code].guesses_by_player[pid])
    /\ \A t \in Threads :
           /\ (Ran(t, "get_team_session_state") /\ resp'[t].status = 200)
                  => resp'[t].body.guesses
                         = TEAM_SESSIONS'[pending[t].code].guesses
           /\ (Ran(t, "get_versus_session_state") /\ resp'[t].status = 200)
                  => LET session == VERSUS_SESSIONS'[pending[t].code]
                         ledger(pid) == Get(session.guesses_by_player, pid, <<>>)
                     IN  /\ resp'[t].body.your_guesses
                                = ledger(pending[t].client_id)
                         /\ resp'[t].body.opponent_guesses
                                = ledger(resp'[t].body.opponent_id)

C25_LedgersAppendOnly == [][C25_Step]_vars

\* The team ledger holds two events, and B has read, in a versus session,
\* its own ledger of two events and A's of one.
C25_Witness ==
    /\ K1 \in DOMAIN TEAM_SESSIONS
    /\ Len(TEAM_SESSIONS[K1].guesses) = 2
    /\ resp["t1"].status = 200
    /\ resp["t1"].request.op = "get_versus_session_state"
    /\ resp["t1"].request.client_id = B
    /\ Len(resp["t1"].body.your_guesses) = 2
    /\ Len(resp["t1"].body.opponent_guesses) = 1

(***************************************************************************)
(* C26. A session that is in a registry before a step and not after it was *)
(* removed by the eviction pass of a handler of that registry, the TTL     *)
(* being positive and the session idle for longer than the TTL; no create, *)
(* join, guess, title guess or state read removes or replaces a session    *)
(* that is not expired, and with a TTL of zero or less no session is ever  *)
(* removed.                                                                *)
(***************************************************************************)
C26_Step(store, after, ops) ==
    \A code \in DOMAIN store :
        (code \notin DOMAIN after
             \/ after[code].created_at # store[code].created_at)
            => /\ ttl > 0
               /\ now - store[code].updated_at > ttl
               /\ \E t \in Threads : pending[t].op \in ops /\ pending'[t].op = "idle"

C26_OnlyEvictionRemoves ==
    [][/\ C26_Step(TEAM_SESSIONS, TEAM_SESSIONS',
                   TeamCodeOps \cup {"create_team_session"})
       /\ C26_Step(VERSUS_SESSIONS, VERSUS_SESSIONS',
                   VersusCodeOps \cup {"create_versus_session"})]_vars

\* The TTL is zero, and a session created at time 0 has been read more than
\* 43200 seconds later: the read's eviction pass left it in place.
C26_Witness ==
    /\ ttl = 0
    /\ K1 \in DOMAIN TEAM_SESSIONS
    /\ TEAM_SESSIONS[K1].created_at = 0
    /\ TEAM_SESSIONS[K1].updated_at = TEAM_SESSION_TTL_SECONDS + 1
    /\ resp["t1"].status = 200
    /\ resp["t1"].request.op = "get_team_session_state"

\* The TTL is the default, and a session created past the deadline of an
\* earlier one holds its code: the create evicted the expired session.
C26_Evicted ==
    /\ ttl = TEAM_SESSION_TTL_SECONDS
    /\ K1 \in DOMAIN VERSUS_SESSIONS
    /\ VERSUS_SESSIONS[K1].created_at = TEAM_SESSION_TTL_SECONDS + 1

(***************************************************************************)
(* C27. A create whose host id is blank, or whose song lacks the artist,   *)
(* the title or the lyrics, is answered 400 and adds no session: only      *)
(* requests with a host id and a complete song reach the registry.  A      *)
(* create answered 200 adds exactly one session, under a code that was     *)
(* free, whose only member is the host, with empty ledger and index, an    *)
(* empty finder list (team) or no winner (versus) and the counter at 1,    *)
(* and its answer is a view with role host, player_count 1 and is_full     *)
(* false.                                                                  *)
(***************************************************************************)
C27_CreateOps == {"create_team_session", "create_versus_session"}

\* What every new session has, whatever its mode.
C27_Seeded(session, req, code) ==
    /\ session.code = code
    /\ session.host_id = req.client_id
    /\ session.song = req.song
    /\ PlayerIds(session) = {req.client_id}
    /\ Len(session.players) = 1
    /\ session.next_seq = 1
    /\ session.created_at = now
    /\ session.updated_at = now

C27_View(view, code) ==
    /\ view.code = code
    /\ view.role = "host"
    /\ view.player_count = 1
    /\ ~view.is_full

\* Thread t's create is answered 200: the registry afterwards is the
\* registry before, less its expired sessions, plus the new session.
C27_Created(t, store, after) ==
    LET req == pending[t]
        code == resp'[t].body.code
    IN  /\ code \in DOMAIN after
        /\ code \in DOMAIN store => Expired(store, code)
        /\ \A other \in DOMAIN after \ {code} :
               other \in DOMAIN store /\ after[other] = store[other]
        /\ \A other \in DOMAIN store \ {code} :
               other \notin DOMAIN after => Expired(store, other)
        /\ C27_Seeded(after[code], req, code)
        /\ C27_View(resp'[t].body, code)

C27_Step(t) ==
    \* rejected before the lock: nothing is added
    /\ (/\ Idle(t) /\ resp'[t].status # 0 /\ resp'[t] # resp[t]
        /\ resp'[t].request.op \in C27_CreateOps)
           => /\ resp'[t].status = 400
              /\ UNCHANGED <<TEAM_SESSIONS, VERSUS_SESSIONS>>
    \* admitted: the host id and the three fields of the song are not blank
    /\ (Idle(t) /\ pending'[t].op \in C27_CreateOps)
           => /\ strip(pending'[t].client_id) # <<>>
              /\ strip(pending'[t].song.artist) # <<>>
              /\ strip(pending'[t].song.title) # <<>>
              /\ strip(pending'[t].song.lyrics) # <<>>
    /\ (Ran(t, "create_team_session") /\ resp'[t].status = 200)
           => /\ C27_Created(t, TEAM_SESSIONS, TEAM_SESSIONS')
              /\ LET session == TEAM_SESSIONS'[resp'[t].body.code]
                 IN  /\ session.guesses = <<>>
                     /\ session.guess_index = EmptyStore
                     /\ session.title_found_by = <<>>
                     /\ resp'[t].body.guesses = <<>>
                     /\ ~resp'[t].body.title_found
              /\ UNCHANGED VERSUS_SESSIONS
    /\ (Ran(t, "create_versus_session") /\ resp'[t].status = 200)
           => /\ C27_Created(t, VERSUS_SESSIONS, VERSUS_SESSIONS')
              /\ LET session == VERSUS_SESSIONS'[resp'[t].body.code]
                     host == pending[t].client_id
                 IN  /\ session.guesses_by_player = Put(EmptyStore, host, <<>>)
                     /\ session.guess_index_by_player
                            = Put(EmptyStore, host, EmptyStore)
                     /\ session.winner_id = <<>>
                     /\ resp'[t].body.your_guesses = <<>>
                     /\ ~resp'[t].body.finished
              /\ UNCHANGED TEAM_SESSIONS

C27_CreateSeedsOneSession == [][\A t \in Threads : C27_Step(t)]_vars

\* A versus session created at the start has expired and a later create has
\* put a new session under its code; since then a create with an incomplete
\* song has been answered 400.
C27_Witness ==
    /\ K1 \in DOMAIN VERSUS_SESSIONS
    /\ VERSUS_SESSIONS[K1].created_at = TEAM_SESSION_TTL_SECONDS + 1
    /\ VERSUS_SESSIONS[K1].guesses_by_player = Put(EmptyStore, A, <<>>)
    /\ resp["t1"].status = 400
    /\ resp["t1"].request.op \in C27_CreateOps
    /\ resp["t1"].body = "Incomplete song payload"

(***************************************************************************)
(* C29. In every reachable state every session of either registry has a    *)
(* stored title that is not blank: the song is stored at creation, after   *)
(* the check of its fields, and no step changes the song of a session.     *)
(* So no title guess is ever answered 500.                                 *)
(***************************************************************************)
C29_TitlesNotBlank ==
    /\ \A code \in DOMAIN TEAM_SESSIONS :
           strip(TEAM_SESSIONS[code].song.title) # <<>>
    /\ \A code \in DOMAIN VERSUS_SESSIONS :
           strip(VERSUS_SESSIONS[code].song.title) # <<>>

C29_NoInternalError ==
    \A t \in Threads :
        (/\ resp[t].status # 0
         /\ resp[t].request.op \in {"add_team_title_guess",
                                    "add_versus_title_guess"})
            => resp[t].status # 500

C29_SongNeverChanges ==
    /\ \A code \in DOMAIN TEAM_SESSIONS :
           SameTeamSession(code)
               => TEAM_SESSIONS'[code].song = TEAM_SESSIONS[code].song
    /\ \A code \in DOMAIN VERSUS_SESSIONS :
           SameVersusSession(code)
               => VERSUS_SESSIONS'[code].song = VERSUS_SESSIONS[code].song

C29_StoredTitleNeverBlank ==
    /\ [](C29_TitlesNotBlank /\ C29_NoInternalError)
    /\ [][C29_SongNeverChanges]_vars

\* Both registries hold a session, and a title guess on the versus session
\* has passed the check of the stored title and been answered correct, with
\* the stored title.
C29_Witness ==
    /\ K1 \in DOMAIN TEAM_SESSIONS
    /\ K1 \in DOMAIN VERSUS_SESSIONS
    /\ resp["t1"].status = 200
    /\ resp["t1"].request.op = "add_versus_title_guess"
    /\ resp["t1"].body.correct
    /\ resp["t1"].body.title = VERSUS_SESSIONS[K1].song.title
    /\ strip(resp["t1"].body.title) # <<>>

(***************************************************************************)
(* C30: normalizeGuess is idempotent, and inputs that differ only in case, *)
(* diacritics or punctuation have one key                                  *)
(***************************************************************************)
IsLetterOrDigit(c) ==
    c \in Range(Lower) \cup Range(Upper) \cup Range(Digits)
          \cup {"U+00C9", "U+00D3", "U+00E9", "U+00F3", "U+00DF"}

IsDiacritic(c) == c = "U+0301"

IsPunctuation(c) == ~IsLetterOrDigit(c) /\ ~IsDiacritic(c) /\ ~IsSpace(c)

\* The text without its letter case and its diacritics.
Fold(text) == SelectSeq(casefold(nfd(text)), LAMBDA c : ~IsDiacritic(c))

\* The text without its letter case, diacritics and punctuation: two texts
\* differ only in these exactly when their bare texts are equal.
Bare(text) == SelectSeq(Fold(text), LAMBDA c : ~IsPunctuation(c))

\* A run of punctuation stands between two letters or digits of the text.
InnerPunctuation(text) ==
    \E i, j \in 1..Len(text) :
        /\ i + 1 < j
        /\ IsLetterOrDigit(text[i])
        /\ IsLetterOrDigit(text[j])
        /\ \A k \in (i + 1)..(j - 1) : IsPunctuation(text[k])

C30_Guess(t) == pending[t].op = "add_team_guess"

C30_Idempotent ==
    \A t \in Threads :
        C30_Guess(t) =>
            _normalize_guess_value(pending[t].normalized_word)
                = pending[t].normalized_word

C30_Apostrophe ==
    /\ C30_Guess("t1")
    /\ pending["t1"].word = <<"o", "'", "o">>
    /\ pending["t1"].normalized_word = <<"o", " ", "o">>
    /\ _normalize_guess_value(<<"o", "o">>) = <<"o", "o">>

(***************************************************************************)
(* C28: no thread holds both registry locks, every block releases its lock *)
(* on every path, and under fair lock scheduling every operation completes *)
(***************************************************************************)
Holder(lock) == lock # Unlocked

\* No thread holds the two locks at once.
C28_NeverBothLocks ==
    \A t \in Threads : ~(TEAM_LOCK = t /\ VERSUS_LOCK = t)

\* A lock is held only by a thread that is inside its block.
C28_HeldFromInside ==
    /\ Holder(TEAM_LOCK) =>
           /\ TEAM_LOCK \in Threads
           /\ pending[TEAM_LOCK].op = "in_block"
           /\ pending[TEAM_LOCK].lock = "TEAM_LOCK"
    /\ Holder(VERSUS_LOCK) =>
           /\ VERSUS_LOCK \in Threads
           /\ pending[VERSUS_LOCK].op = "in_block"
           /\ pending[VERSUS_LOCK].lock = "VERSUS_LOCK"

\* A thread that answers its request (an event, the event recorded earlier
\* or an error) holds no lock afterwards.
C28_Release ==
    \A t \in Threads :
        (~Idle(t) /\ Idle(t)') => (TEAM_LOCK' # t /\ VERSUS_LOCK' # t)

\* Some step of thread t can be taken.
C28_CanStep(t) ==
    \/ pending[t].op \in {"create_team_session", "add_team_guess"}
           /\ TEAM_LOCK = Unlocked
    \/ pending[t].op \in {"create_versus_session", "add_versus_guess"}
           /\ VERSUS_LOCK = Unlocked
    \/ pending[t].op = "in_block"

\* Whenever a request is pending, a thread can take a step of a handler.
C28_NoDeadlock ==
    (\E t \in Threads : ~Idle(t)) => (\E t \in Threads : C28_CanStep(t))

C28_Completes ==
    \A t \in Threads : (~Idle(t)) ~> Idle(t)

\* C28: no thread holds both locks, every path out of a block releases its
\* lock, no state with a pending request is stuck, and every request that
\* reached a handler is answered in the end.
C28_LocksReleasedAndOperationsComplete ==
    /\ [](C28_NeverBothLocks /\ C28_HeldFromInside /\ C28_NoDeadlock)
    /\ [][C28_Release]_vars
    /\ C28_Completes

\* Both threads answered and both locks are unlocked: one thread left the
\* team block by the early return for a duplicate guess, the other left the
\* versus block by a raised error.
C28_Witness ==
    /\ Idle("t1") /\ Idle("t2")
    /\ TEAM_LOCK = Unlocked /\ VERSUS_LOCK = Unlocked
    /\ resp["t1"].status = 200
    /\ resp["t1"].request.op = "add_team_guess"
    /\ ~resp["t1"].body.accepted
    /\ resp["t2"].status = 403
    /\ resp["t2"].request.op = "add_versus_guess"

\* A thread waits for the team lock while the other is inside the block.
C28_Waiting ==
    /\ pending["t1"].op = "add_team_guess"
    /\ TEAM_LOCK = "t2"
    /\ VERSUS_LOCK = Unlocked

(***************************************************************************)
(* C31: the flags of a team view, against the session it was built from    *)
(***************************************************************************)
TeamViewOps == {"create_team_session", "join_team_session",
                "get_team_session_state", "add_team_title_guess"}

\* The view in the answer of a team handler: the body, or its "state" for a
\* title guess.
TeamViewOf(answer) ==
    IF answer.request.op = "add_team_title_guess" THEN answer.body.state
    ELSE answer.body

\* The view agrees with the session as seen by client c.
C31_View(view, session, c) ==
    LET finders == Range(session.title_found_by)
    IN  /\ (view.role = "host") <=> (c = session.host_id)
        /\ view.role \in {"host", "guest"}
        /\ view.player_count = Cardinality(PlayerIds(session))
        /\ view.is_full <=> (view.player_count = 2)
        /\ view.title_found <=> (finders # {})
        /\ view.you_found_title <=> (c \in finders)
        /\ view.teammate_found_title <=> (finders \ {c} # {})

\* Thread t answers 200 to a team handler that returns a view.
C31_Answered(t) ==
    /\ pending[t].op \in TeamViewOps
    /\ Idle(t)'
    /\ resp'[t].status = 200

\* C31: in every team view returned to client c, role is "host" iff c is the
\* host, player_count is the number of members, is_full iff it is 2,
\* title_found iff the finder set is not empty, you_found_title iff c is in
\* it, teammate_found_title iff a client other than c is in it.
C31_TeamViewFlags ==
    [][\A t \in Threads :
           C31_Answered(t) =>
               LET view == TeamViewOf(resp'[t])
               IN  /\ view.code \in DOMAIN TEAM_SESSIONS'
                   /\ C31_View(view, TEAM_SESSIONS'[view.code],
                               pending[t].client_id)]_vars

\* The guest B gets the view of a full session where both members have found
\* the title: B found it and so did a teammate.
C31_Witness ==
    /\ resp["t1"].status = 200
    /\ resp["t1"].request.op = "get_team_session_state"
    /\ resp["t1"].request.client_id = B
    /\ resp["t1"].body.role = "guest"
    /\ resp["t1"].body.is_full
    /\ resp["t1"].body.title_found
    /\ resp["t1"].body.you_found_title
    /\ resp["t1"].body.teammate_found_title

(***************************************************************************)
(* C32: the flags and the ledgers of a versus view, against the session    *)
(***************************************************************************)
VersusViewOps == {"create_versus_session", "join_versus_session",
                  "get_versus_session_state", "add_versus_title_guess"}

VersusViewOf(answer) ==
    IF answer.request.op = "add_versus_title_guess" THEN answer.body.state
    ELSE answer.body

\* The view agrees with the session as seen by its member c.
C32_View(view, session, c) ==
    LET winner == session.winner_id
        others == PlayerIds(session) \ {c}
    IN  /\ c \in PlayerIds(session)
        /\ view.finished <=> (winner # <<>>)
        /\ view.you_won <=> (winner = c)
        /\ view.opponent_won <=> (winner # <<>> /\ winner # c)
        /\ ~(view.you_won /\ view.opponent_won)
        /\ view.finished => (view.you_won \/ view.opponent_won)
        /\ c \in DOMAIN session.guesses_by_player
        /\ view.your_guesses = session.guesses_by_player[c]
        /\ others = {} => view.opponent_guesses = <<>>
        /\ \A o \in others :
               /\ others = {o}
               /\ o \in DOMAIN session.guesses_by_player
               /\ view.opponent_guesses = session.guesses_by_player[o]

C32_Answered(t) ==
    /\ pending[t].op \in VersusViewOps
    /\ Idle(t)'
    /\ resp'[t].status = 200

\* C32: in every versus view returned to member c, finished iff the winner is
\* set, you_won iff the winner is c, opponent_won iff the winner is set and
\* is not c (never both, one of them when finished), your_guesses is c's own
\* ledger and opponent_guesses the other member's, empty when c is alone.
C32_VersusViewFlagsAndLedgers ==
    [][\A t \in Threads :
           C32_Answered(t) =>
               LET view == VersusViewOf(resp'[t])
               IN  /\ view.code \in DOMAIN VERSUS_SESSIONS'
                   /\ C32_View(view, VERSUS_SESSIONS'[view.code],
                               pending[t].client_id)]_vars

\* The host A, who lost, gets the view of a finished session: the opponent
\* won, A's ledger and B's ledger are both shown and differ.
C32_Witness ==
    /\ resp["t1"].status = 200
    /\ resp["t1"].request.op = "get_versus_session_state"
    /\ resp["t1"].request.client_id = A
    /\ resp["t1"].body.finished
    /\ resp["t1"].body.opponent_won
    /\ ~resp["t1"].body.you_won
    /\ resp["t1"].body.your_guesses # <<>>
    /\ resp["t1"].body.opponent_guesses # <<>>
    /\ resp["t1"].body.your_guesses # resp["t1"].body.opponent_guesses

(***************************************************************************)
(* C33: the token of the similarity lookup is the guess key of the word    *)
(***************************************************************************)
C33_LookedUp(t) ==
    /\ resp[t].status = 200
    /\ resp[t].request.op = "get_similar"

\* C33 as stated: the token looked up for a word is normalizeGuess of the
\* word, the key under which the same word is indexed as a guess, and never
\* the text as typed when that differs from its key.
C33_TokenIsGuessKey ==
    \A t \in Threads :
        C33_LookedUp(t) =>
            /\ resp[t].body.normalized
                   = _normalize_guess_value(resp[t].request.word)
            /\ \A code \in DOMAIN TEAM_SESSIONS :
                   \A key \in DOMAIN TEAM_SESSIONS[code].guess_index :
                       TEAM_SESSIONS[code].guess_index[key].word
                               = strip(resp[t].request.word)
                           => resp[t].body.normalized = key

\* What the code does: the token is normalize_word of the word.
C33_TokenIsNormalizedWord ==
    \A t \in Threads :
        C33_LookedUp(t) =>
            resp[t].body.normalized = normalize_word(resp[t].request.word)

\* The word "Yo!" with an accented o is in the ledger under the key "yo", and
\* its lookup went out with the token "yo!", unknown to a model that knows
\* "yo".
C33_PunctuationInToken ==
    /\ C33_LookedUp("t1")
    /\ resp["t1"].request.word = WordYoAccent
    /\ resp["t1"].body.normalized = <<"y", "o", "!">>
    /\ resp["t1"].body.results = <<>>
    /\ K1 \in DOMAIN TEAM_SESSIONS
    /\ WordYo \in DOMAIN TEAM_SESSIONS[K1].guess_index
    /\ TEAM_SESSIONS[K1].guess_index[WordYo].word = WordYoAccent

(***************************************************************************)
(* C34: the numbers of a versus session are 1..next_seq - 1, each given    *)
(* once over both ledgers; the counter moves by one per accepted guess     *)
(***************************************************************************)
RECURSIVE SumLen(_, _)
SumLen(ledgers, pids) ==
    IF pids = {} THEN 0
    ELSE LET pid == CHOOSE p \in pids : TRUE
         IN  Len(ledgers[pid]) + SumLen(ledgers, pids \ {pid})

\* The numbers of all events of the session, over every player's ledger.
SessionSeqs(session) ==
    UNION {Range(Seqs(session.guesses_by_player[pid])) :
               pid \in DOMAIN session.guesses_by_player}

C34_Numbers ==
    \A code \in DOMAIN VERSUS_SESSIONS :
        LET session == VERSUS_SESSIONS[code]
        IN  /\ SessionSeqs(session) = 1..(session.next_seq - 1)
            /\ SumLen(session.guesses_by_player,
                      DOMAIN session.guesses_by_player)
                   = session.next_seq - 1

\* Thread t's versus guess on `code` is accepted in this step.
C34_Accepted(t, code) ==
    /\ Ran(t, "add_versus_guess")
    /\ pending[t].code = code
    /\ resp'[t].status = 200
    /\ resp'[t].body.accepted

C34_Counter ==
    \A code \in DOMAIN VERSUS_SESSIONS :
        SameVersusSession(code) =>
            VERSUS_SESSIONS'[code].next_seq =
                IF \E t \in Threads : C34_Accepted(t, code)
                THEN VERSUS_SESSIONS[code].next_seq + 1
                ELSE VERSUS_SESSIONS[code].next_seq

\* C34: in every state the numbers of the events of a versus session, over
\* both ledgers, are pairwise distinct and are exactly 1..next_seq - 1; the
\* counter advances by one on an accepted guess of either player and on
\* nothing else.
C34_SharedCounter == [](C34_Numbers) /\ [][C34_Counter]_vars

\* A holds 1 and 3, B holds 2, the counter is at 4, and the last guess was a
\* duplicate that left it there.
C34_Witness ==
    /\ K1 \in DOMAIN VERSUS_SESSIONS
    /\ DOMAIN VERSUS_SESSIONS[K1].guesses_by_player = {A, B}
    /\ Seqs(VERSUS_SESSIONS[K1].guesses_by_player[A]) = <<1, 3>>
    /\ Seqs(VERSUS_SESSIONS[K1].guesses_by_player[B]) = <<2>>
    /\ VERSUS_SESSIONS[K1].next_seq = 4
    /\ GuessAnswer(resp["t1"], "add_versus_guess")
    /\ ~resp["t1"].body.accepted

(***************************************************************************)
(* C35: the dedup index and the ledger of a team session hold the same     *)
(* events, one per key                                                     *)
(***************************************************************************)
C35_Session(session) ==
    LET index == session.guess_index
        ledger == session.guesses
    IN  /\ {index[key] : key \in DOMAIN index} = Range(ledger)
        /\ \A key \in DOMAIN index :
               _normalize_guess_value(index[key].word) = key
        /\ \A i, j \in 1..Len(ledger) :
               i # j => _normalize_guess_value(ledger[i].word)
                            # _normalize_guess_value(ledger[j].word)
        /\ Cardinality(DOMAIN index) = Len(ledger)
        /\ Len(ledger) = session.next_seq - 1

\* C35: in every state of a team session the values of the index are the
\* events of the ledger, each under normalizeGuess of its text, no two
\* events of the ledger have one key, and index size = ledger length =
\* next_seq - 1.
C35_IndexMirrorsLedger ==
    \A code \in DOMAIN TEAM_SESSIONS : C35_Session(TEAM_SESSIONS[code])

\* Two events under the keys "yo" and "z", the first typed "Yo!" with an
\* accent, and a later guess "yo" answered as its duplicate.
C35_Witness ==
    /\ K1 \in DOMAIN TEAM_SESSIONS
    /\ DOMAIN TEAM_SESSIONS[K1].guess_index = {WordYo, WordZ}
    /\ Len(TEAM_SESSIONS[K1].guesses) = 2
    /\ TEAM_SESSIONS[K1].guess_index[WordYo].word = WordYoAccent
    /\ GuessAnswer(resp["t1"], "add_team_guess")
    /\ resp["t1"].request.word = WordYo
    /\ ~resp["t1"].body.accepted

(***************************************************************************)
(* C36: a title guess is refused when a normal form is empty, and a        *)
(* session whose title normalises to nothing is never won                  *)
(***************************************************************************)
EmptyNormalForm(title) == _normalize_title_value(title) = <<>>

\* A member's title guess on a live session, the guess or the stored title
\* normalising to nothing: 400, the session is as before, no session appears
\* and the other registry is as before.
C36_Refused(t, op, store, after, other, otherAfter) ==
    LET req == pending[t]
    IN  (/\ Ran(t, op)
         /\ Live(store, req.code)
         /\ req.client_id \in PlayerIds(store[req.code])
         /\ \/ EmptyNormalForm(req.title_guess)
            \/ EmptyNormalForm(store[req.code].song.title))
            => /\ resp'[t].status = 400
               /\ req.code \in DOMAIN after
               /\ after[req.code] = store[req.code]
               /\ DOMAIN after \subseteq DOMAIN store
               /\ otherAfter = other

\* No title guess on a session whose title normalises to nothing is judged.
C36_NeverJudged(t, op, store) ==
    (/\ Ran(t, op)
     /\ pending[t].code \in DOMAIN store
     /\ EmptyNormalForm(store[pending[t].code].song.title))
        => resp'[t].status # 200

C36_NeverWon ==
    /\ \A code \in DOMAIN TEAM_SESSIONS :
           /\ strip(TEAM_SESSIONS[code].song.title) # <<>>
           /\ EmptyNormalForm(TEAM_SESSIONS[code].song.title)
                  => TEAM_SESSIONS[code].title_found_by = <<>>
    /\ \A code \in DOMAIN VERSUS_SESSIONS :
           /\ strip(VERSUS_SESSIONS[code].song.title) # <<>>
           /\ EmptyNormalForm(VERSUS_SESSIONS[code].song.title)
                  => VERSUS_SESSIONS[code].winner_id = <<>>

\* C36: a member's title guess fails with 400 and changes nothing when the
\* normal form of the guess or of the stored title is empty; a session whose
\* stored title is not blank and normalises to nothing has no title guess
\* judged correct, no finder and, in versus mode, no winner.
C36_EmptyNormalFormRefused ==
    /\ [](C36_NeverWon)
    /\ [][\A t \in Threads :
              /\ C36_Refused(t, "add_team_title_guess", TEAM_SESSIONS,
                             TEAM_SESSIONS', VERSUS_SESSIONS, VERSUS_SESSIONS')
              /\ C36_Refused(t, "add_versus_title_guess", VERSUS_SESSIONS,
                             VERSUS_SESSIONS', TEAM_SESSIONS, TEAM_SESSIONS')
              /\ C36_NeverJudged(t, "add_team_title_guess", TEAM_SESSIONS)
              /\ C36_NeverJudged(t, "add_versus_title_guess",
                                 VERSUS_SESSIONS)]_vars

\* The versus session's title is "Feat.": its second member B, one second
\* after joining, guessed "Feat." letter for letter and was refused, and the
\* session has no winner and its last activity is still the join.
C36_Witness ==
    /\ K1 \in DOMAIN VERSUS_SESSIONS
    /\ VERSUS_SESSIONS[K1].song.title = TitleFeatOnly
    /\ PlayerIds(VERSUS_SESSIONS[K1]) = {A, B}
    /\ VERSUS_SESSIONS[K1].winner_id = <<>>
    /\ resp["t1"].status = 400
    /\ resp["t1"].request.op = "add_versus_title_guess"
    /\ resp["t1"].request.client_id = B
    /\ resp["t1"].request.title_guess = TitleFeatOnly
    /\ now > VERSUS_SESSIONS[K1].updated_at

(***************************************************************************)
(* C37: a title guess changes the session only when it is the first        *)
(* correct one of its client (team) or of the session (versus)             *)
(***************************************************************************)
\* Thread t's title guess is judged correct in this step.
C37_Correct(t) == resp'[t].status = 200 /\ resp'[t].body.correct

C37_Team(t) ==
    LET req == pending[t]
        session == TEAM_SESSIONS[req.code]
        first == C37_Correct(t)
                     /\ req.client_id \notin Range(session.title_found_by)
    IN  (Ran(t, "add_team_title_guess") /\ SameTeamSession(req.code))
            => /\ ~first => TEAM_SESSIONS'[req.code] = session
               /\ first => TEAM_SESSIONS'[req.code] =
                               [session EXCEPT
                                    !.title_found_by = Append(@, req.client_id),
                                    !.updated_at = now]

C37_Versus(t) ==
    LET req == pending[t]
        session == VERSUS_SESSIONS[req.code]
        first == C37_Correct(t) /\ session.winner_id = <<>>
    IN  (Ran(t, "add_versus_title_guess") /\ SameVersusSession(req.code))
            => /\ ~first => VERSUS_SESSIONS'[req.code] = session
               /\ first => VERSUS_SESSIONS'[req.code] =
                               [session EXCEPT !.winner_id = req.client_id,
                                               !.updated_at = now]

\* C37: a title guess that is not correct, or is correct but comes from a
\* client already among the finders (team) or after a winner is set
\* (versus), leaves the session as it was, last activity included; the first
\* correct one records the finder or the winner and the time.
C37_OnlyFirstCorrectGuessWrites ==
    [][\A t \in Threads : C37_Team(t) /\ C37_Versus(t)]_vars

\* One second after B won the versus session, A's correct guess has been
\* answered: B is still the winner and the last activity is still B's.
C37_Witness ==
    /\ K1 \in DOMAIN VERSUS_SESSIONS
    /\ VERSUS_SESSIONS[K1].winner_id = B
    /\ resp["t1"].status = 200
    /\ resp["t1"].request.op = "add_versus_title_guess"
    /\ resp["t1"].request.client_id = A
    /\ resp["t1"].body.correct
    /\ VERSUS_SESSIONS[K1].updated_at < now

\* One second after the team session was last touched, a member's wrong
\* guess has been answered and the last activity has not moved.
C37_WrongGuess ==
    /\ K1 \in DOMAIN TEAM_SESSIONS
    /\ resp["t1"].status = 200
    /\ resp["t1"].request.op = "add_team_title_guess"
    /\ ~resp["t1"].body.correct
    /\ TEAM_SESSIONS[K1].updated_at < now

(***************************************************************************)
(* C38: every client id recorded in a session is a member of it            *)
(***************************************************************************)
C38_Team(session) ==
    LET members == PlayerIds(session)
    IN  /\ \A e \in TeamEvents(session) : e.client_id \in members
        /\ \A key \in DOMAIN session.guess_index :
               session.guess_index[key].client_id \in members
        /\ Range(session.title_found_by) \subseteq members

C38_Versus(session) ==
    LET members == PlayerIds(session)
    IN  /\ session.winner_id # <<>> => session.winner_id \in members
        /\ DOMAIN session.guesses_by_player = members
        /\ DOMAIN session.guess_index_by_player = members
        /\ \A pid \in members :
               /\ \A e \in Range(session.guesses_by_player[pid]) :
                      e.client_id = pid
               /\ \A key \in DOMAIN session.guess_index_by_player[pid] :
                      session.guess_index_by_player[pid][key].client_id = pid

\* C38: in every state, the submitter of every event, every title finder,
\* the winner when set and every key of the per-player ledgers and indices
\* of a session is a member of it, the keys of a versus session's ledgers
\* and indices are exactly its members, and a versus player's ledger holds
\* that player's events only.
C38_RecordedClientsAreMembers ==
    /\ \A code \in DOMAIN TEAM_SESSIONS : C38_Team(TEAM_SESSIONS[code])
    /\ \A code \in DOMAIN VERSUS_SESSIONS : C38_Versus(VERSUS_SESSIONS[code])

\* Both sessions are full with A and B, each holds events of A and B (the
\* team ledger B's, the versus ledgers one each), B found the title and won,
\* and the stranger C has just been refused a guess.
C38_Witness ==
    /\ K1 \in DOMAIN TEAM_SESSIONS /\ K1 \in DOMAIN VERSUS_SESSIONS
    /\ PlayerIds(TEAM_SESSIONS[K1]) = {A, B}
    /\ PlayerIds(VERSUS_SESSIONS[K1]) = {A, B}
    /\ \E e \in TeamEvents(TEAM_SESSIONS[K1]) : e.client_id = B
    /\ B \in Range(TEAM_SESSIONS[K1].title_found_by)
    /\ VERSUS_SESSIONS[K1].winner_id = B
    /\ VERSUS_SESSIONS[K1].guesses_by_player[A] # <<>>
    /\ VERSUS_SESSIONS[K1].guesses_by_player[B] # <<>>
    /\ resp["t1"].status = 403
    /\ resp["t1"].request.client_id = C

(***************************************************************************)
(* C39: the host stays a member, members are never removed, and the code,  *)
(* the host, the threshold and the song of a session never change          *)
(***************************************************************************)
C39_HostIsMember(store) ==
    \A code \in DOMAIN store :
        /\ store[code].code = code
        /\ store[code].host_id \in PlayerIds(store[code])

\* The session before and after a step: every member is still a member,
\* with the time of joining, and the four fields are as they were.
C39_Kept(before, after) ==
    /\ PlayerIds(before) \subseteq PlayerIds(after)
    /\ Prefix(before.players, after.players)
    /\ after.code = before.code
    /\ after.host_id = before.host_id
    /\ after.min_streams = before.min_streams
    /\ after.song = before.song

C39_Step ==
    /\ \A code \in DOMAIN TEAM_SESSIONS :
           SameTeamSession(code)
               => C39_Kept(TEAM_SESSIONS[code], TEAM_SESSIONS'[code])
    /\ \A code \in DOMAIN VERSUS_SESSIONS :
           SameVersusSession(code)
               => C39_Kept(VERSUS_SESSIONS[code], VERSUS_SESSIONS'[code])

\* C39: for as long as a session exists its host is one of its members, no
\* step removes a member, and its code, host id, minimum-stream threshold
\* and song are those of its creation.
C39_MembersGrowAndIdentityIsFixed ==
    /\ [](C39_HostIsMember(TEAM_SESSIONS) /\ C39_HostIsMember(VERSUS_SESSIONS))
    /\ [][C39_Step]_vars

\* A team session created after the clock passed one TTL, since then joined
\* by B, guessed in and with its title found: still A's, with A and B.
C39_Witness ==
    /\ K1 \in DOMAIN TEAM_SESSIONS
    /\ TEAM_SESSIONS[K1].created_at > 0
    /\ TEAM_SESSIONS[K1].host_id = A
    /\ PlayerIds(TEAM_SESSIONS[K1]) = {A, B}
    /\ TEAM_SESSIONS[K1].guesses # <<>>
    /\ TEAM_SESSIONS[K1].title_found_by # <<>>
    /\ TEAM_SESSIONS[K1].song = SongYZ
    /\ TEAM_SESSIONS[K1].min_streams = 2

(***************************************************************************)
(* C40: the order of the failures of one call                              *)
(***************************************************************************)
GuessOps == {"add_team_guess", "add_versus_guess"}

TitleOps == {"add_team_title_guess", "add_versus_title_guess"}

\* A request that has passed the checks made before the lock has no blank
\* field, and a guess has a key.
C40_Admitted ==
    \A t \in Threads :
        pending[t].op \in GuessOps \cup TitleOps =>
            /\ strip(pending[t].code) # <<>>
            /\ strip(pending[t].client_id) # <<>>
            /\ pending[t].op \in GuessOps =>
                   /\ strip(pending[t].word) # <<>>
                   /\ _normalize_guess_value(pending[t].word) # <<>>
            /\ pending[t].op \in TitleOps =>
                   strip(pending[t].title_guess) # <<>>

\* A request is refused before the lock: 400, and both registries keep even
\* their expired sessions.
C40_Validation(t) ==
    (/\ Idle(t) /\ Idle(t)'
     /\ resp'[t] # resp[t]
     /\ resp'[t].request.op \in GuessOps \cup TitleOps)
        => /\ resp'[t].status = 400
           /\ UNCHANGED <<TEAM_SESSIONS, VERSUS_SESSIONS>>

\* Inside the lock: not found before forbidden, forbidden before finished
\* and before the check of the title's normal form.
C40_Inside(t, op, store) ==
    LET req == pending[t]
        status == resp'[t].status
        member == req.client_id \in PlayerIds(store[req.code])
    IN  Ran(t, op) =>
            /\ ~Live(store, req.code) => status = 404
            /\ (Live(store, req.code) /\ ~member) => status = 403
            /\ (/\ Live(store, req.code) /\ member
                /\ op = "add_versus_guess"
                /\ store[req.code].winner_id # <<>>) => status = 409
            /\ (/\ Live(store, req.code) /\ member
                /\ op \in TitleOps
                /\ EmptyNormalForm(req.title_guess)) => status = 400
            /\ status = 404 => ~Live(store, req.code)
            /\ status = 403 => Live(store, req.code) /\ ~member
            /\ status \in {409, 400, 200} => Live(store, req.code) /\ member

\* C40: a blank code, client id, word or title and a guess without key are
\* refused with 400 before the lock and before any eviction; inside the
\* lock a missing or expired session gives 404 whoever asks, a non-member
\* gets 403 whether or not the session is finished or the title has a
\* normal form, and only a member gets 409 or the 400 of the title check.
C40_FailurePrecedence ==
    /\ [](C40_Admitted)
    /\ [][\A t \in Threads :
              /\ C40_Validation(t)
              /\ C40_Inside(t, "add_team_guess", TEAM_SESSIONS)
              /\ C40_Inside(t, "add_versus_guess", VERSUS_SESSIONS)
              /\ C40_Inside(t, "add_versus_title_guess",
                            VERSUS_SESSIONS)]_vars

\* The versus session is finished, won by its host A, and the stranger B's
\* guess has been answered 403.
C40_Witness ==
    /\ K1 \in DOMAIN VERSUS_SESSIONS
    /\ VERSUS_SESSIONS[K1].winner_id = A
    /\ B \notin PlayerIds(VERSUS_SESSIONS[K1])
    /\ resp["t1"].status = 403
    /\ resp["t1"].request.op = "add_versus_guess"
    /\ resp["t1"].request.client_id = B

\* A guess has been refused before the lock while the registry holds a
\* session idle past the TTL, which is still there.
C40_RefusedBeforeEviction ==
    /\ resp["t1"].status = 400
    /\ resp["t1"].request.op = "add_versus_guess"
    /\ Expired(VERSUS_SESSIONS, K1)

====
